---------------------------- MODULE Spec2Model ----------------------------
(***************************************************************************)
(* State-machine model of src/tracker.py: KalmanTracker (one Track) and    *)
(* ObjectTracker (the manager whose update() is the per-frame step()).     *)
(*                                                                         *)
(* Geometry is integer: a box is <<x1, y1, x2, y2>>, a box centre is kept  *)
(* doubled (x1 + x2, y1 + y2) so that it stays an integer, and the float   *)
(* costs of the three association stages are held in fixed point, in units *)
(* of 1/CostScale.  cv2.KalmanFilter is a library outside the repository:  *)
(* its estimates are drawn from KfBoxes, except where linear algebra fixes *)
(* them (zero velocity and zero innovation leave the estimate unchanged).  *)
(***************************************************************************)
EXTENDS Integers, Sequences, FiniteSets, TLC

VARIABLES
    trackers,    \* ObjectTracker.trackers: the live Tracks, in creation order
    next_id,     \* ObjectTracker.next_id
    max_lost,    \* ObjectTracker.max_lost (constructor argument)
    out,         \* the list update() returned last
    in_dets,     \* the dets argument of the last update() call
    in_shape,    \* the frame_shape argument of the last update() call
    log,         \* per Track live at the start of the last call: what happened to it
    spawned,     \* indices of the detections that seeded a new Track in the last call
    issued,      \* every id handed to a KalmanTracker so far, in issuance order
    seen,        \* every id that appeared in some returned list so far
    removed,     \* id and last_detection of every Track the lost-filter dropped
    raised,      \* the last update() call ended in an exception instead of returning
    calls,       \* what the last update() call did to the Tracks, in program order
    matches,     \* <<Track index, detection index, stage>> of every pair it accepted
    count_age,   \* whether KalmanTracker.age is counted (it is, where MaxAge bounds it)
    max_history, \* KalmanTracker.max_history, the maxlen of the history deque
    args,        \* the arguments a function of the module is applied to
    result,      \* what the function returned for args, None before the call
    worker,      \* the fields of the DetectionWorker that owns the manager
    pc,          \* where each thread of the application stands, with its locals
    receiver,    \* the fields of the AndroidVideoReceiver the phone uploads to
    lived,       \* per live Track id: the update() calls completed since the one that made it
    count        \* KalmanTracker.count, the class attribute (NoCount where it is not followed)

vars == <<trackers, next_id, max_lost, out, in_dets, in_shape, log, spawned,
          issued, seen, removed, raised, calls, matches, count_age,
          max_history,
          args, result, worker, pc, receiver, lived, count>>

None == <<>>

\* A step of the manager alone: no DetectionWorker, no thread.
Unchanged_worker == UNCHANGED <<worker, pc, lived>>

-----------------------------------------------------------------------------
(* Bounds of the model *)

MaxTracks == 2
MaxDets == 2
MaxId == 3
LostOver == 0
MaxLostA == 2
MaxAge == 3
MaxLostR == 13
MaxTracksR == 2
MaxDetsR == 1
MaxIdR == 2

(* Program constants *)

ScoreThreshPct == 70
MatchThresholdPct == 30
MaxDistanceFactorPct == 10
DecayFactorPct == 90
DefaultFrameH == 480
DefaultFrameW == 640

CostScale == 100 * 100
PowScale == CostScale * CostScale
Sentinel == 2 * CostScale

(* Inputs: the boxes and confidences a detector may deliver *)

BoxA == <<0, 0, 8, 8>>
BoxB == <<2, 0, 10, 8>>
BoxC == <<20, 0, 28, 8>>
Boxes == {BoxA, BoxB, BoxC}

\* Three boxes in a row, each within the gate of the next and outside the gate
\* of the next but one.
BoxD == <<4, 0, 12, 8>>
BoxE == <<8, 0, 16, 8>>
BoxesB == {BoxA, BoxD, BoxE}
Det(b, score) == <<b[1], b[2], b[3], b[4], score>>
Detections == {Det(BoxA, 90), Det(BoxB, 50), Det(BoxC, 90)}
FrameShapes == {<<30, 40>>}

\* The boxes a Kalman prediction may land on once the Track has a velocity.
KfBoxes == {BoxA, BoxC}

\* A corrected Kalman estimate that is not exactly a measured box.
Estimate == <<"estimate">>


-----------------------------------------------------------------------------
(* Geometry helpers *)

Max(a, b) == IF a >= b THEN a ELSE b
Min(a, b) == IF a <= b THEN a ELSE b

DetBox(d) == <<d[1], d[2], d[3], d[4]>>
DetScore(d) == d[5]

\* Doubled centre of a box: (x1 + x2, y1 + y2) = 2 * ((x1 + x2) / 2, ...).
Center2(b) == <<b[1] + b[3], b[2] + b[4]>>

\* 4 * (dx*dx + dy*dy) for the centres of a and b.
DistSq4(a, b) ==
    LET ca == Center2(a)
        cb == Center2(b)
    IN  (ca[1] - cb[1]) * (ca[1] - cb[1]) + (ca[2] - cb[2]) * (ca[2] - cb[2])

\* Variant: the intersection width and height are not clamped at 0.
IouUnclamped(a, b) ==
    LET inter_w == Min(a[3], b[3]) - Max(a[1], b[1])
        inter_h == Min(a[4], b[4]) - Max(a[2], b[2])
        inter_area == inter_w * inter_h
        union_area == (a[3] - a[1]) * (a[4] - a[2])
                        + (b[3] - b[1]) * (b[4] - b[2]) - inter_area
    IN  IF union_area > 0 THEN (inter_area * CostScale) \div union_area ELSE 0

\* compute_iou, in units of 1/CostScale.
compute_iou(a, b) ==
    LET inter_x1 == Max(a[1], b[1])
        inter_y1 == Max(a[2], b[2])
        inter_x2 == Min(a[3], b[3])
        inter_y2 == Min(a[4], b[4])
        inter_w == Max(0, inter_x2 - inter_x1)
        inter_h == Max(0, inter_y2 - inter_y1)
        inter_area == inter_w * inter_h
        a_area == (a[3] - a[1]) * (a[4] - a[2])
        b_area == (b[3] - b[1]) * (b[4] - b[2])
        union_area == a_area + b_area - inter_area
    IN  IF union_area > 0 THEN (inter_area * CostScale) \div union_area ELSE 0

\* frame_h, frame_w of update(): frame_shape[:2], or 480 x 640 when it is None.
FrameDims(frame_shape) ==
    IF frame_shape # None
    THEN <<frame_shape[1], frame_shape[2]>>
    ELSE <<DefaultFrameH, DefaultFrameW>>

\* c_sq = frame_w * frame_w + frame_h * frame_h
CSq(frame_w, frame_h) == frame_w * frame_w + frame_h * frame_h

\* abs_dist > max_distance, with max_distance = sqrt(c_sq) * max_distance_factor:
\* both sides squared and multiplied by 4 * 100 * 100.
\* Variant: the gate never excludes a pair.
FarNever(ref, det, frame_w, frame_h) == FALSE

Far(ref, det, frame_w, frame_h) ==
    DistSq4(ref, det) * 100 * 100
        > 4 * CSq(frame_w, frame_h) * MaxDistanceFactorPct * MaxDistanceFactorPct

\* 1 - d_ij = dist_sq / c_sq, in units of 1/CostScale.
DistCost(ref, det, frame_w, frame_h) ==
    (DistSq4(ref, det) * CostScale) \div (4 * CSq(frame_w, frame_h))

\* dist_sq / c_sq is computed for a pair inside the gate of a frame whose c_sq
\* is 0: the division is 0 / 0.
ZeroByZero(ref, det, frame_w, frame_h) ==
    /\ CSq(frame_w, frame_h) = 0
    /\ ~Far(ref, det, frame_w, frame_h)

\* A cost that came out of 0 / 0 in numpy arithmetic: it compares below nothing.
NaN == 3 * CostScale

match_threshold == (MatchThresholdPct * CostScale) \div 100

\* Variant: a cost equal to the threshold is accepted.
AcceptedOrEqual(cost) == cost <= match_threshold

\* cost_matrix[r, c] < self.match_threshold
Accepted(cost) == cost < match_threshold

\* decay_factor ** lost, in units of 1/PowScale.
RECURSIVE DecayPow(_)
DecayPow(lost) ==
    IF lost = 0 THEN PowScale ELSE (DecayPow(lost - 1) \div 100) * DecayFactorPct

\* Variant: the weight decays with the time lost.
TimeDecayFalling(lost) == DecayPow(lost) \div CostScale

\* Variant: the weight of a decay factor of 0.81.
TimeDecayFaster(lost) == CostScale - (DecayPow(2 * lost) \div CostScale)

\* time_decay = 1.0 - decay_factor ** lost, in units of 1/CostScale.
TimeDecay(lost) == CostScale - (DecayPow(lost) \div CostScale)

\* The reference box a Track is matched on in Stage A and Stage B.
PredBox(trk) ==
    IF trk.predict_state # None THEN trk.predict_state ELSE trk.state

\* Variant: the Stage A cost is the similarity d_ij itself.
FirstCostSimilarity(trk, det, frame_w, frame_h) ==
    IF Far(PredBox(trk), det, frame_w, frame_h)
    THEN Sentinel
    ELSE CostScale - DistCost(PredBox(trk), det, frame_w, frame_h)

\* One entry of the Stage A cost matrix: 1 - d_ij.
FirstCost(trk, det, frame_w, frame_h) ==
    IF Far(PredBox(trk), det, frame_w, frame_h)
    THEN Sentinel
    ELSE IF ZeroByZero(PredBox(trk), det, frame_w, frame_h) THEN NaN
    ELSE DistCost(PredBox(trk), det, frame_w, frame_h)

\* One entry of the Stage B cost matrix: 1 - (iou + d_ij) / 2.
SecondCost(trk, det, frame_w, frame_h) ==
    IF Far(PredBox(trk), det, frame_w, frame_h)
    THEN Sentinel
    ELSE IF ZeroByZero(PredBox(trk), det, frame_w, frame_h) THEN NaN
    ELSE CostScale
           - ((compute_iou(PredBox(trk), det)
                + (CostScale - DistCost(PredBox(trk), det, frame_w, frame_h))) \div 2)

\* Variant: recovery measures from the predicted box.
RecoveryCostFromPrediction(trk, det, frame_w, frame_h) ==
    IF Far(PredBox(trk), det, frame_w, frame_h)
    THEN Sentinel
    ELSE CostScale
           - ((((compute_iou(PredBox(trk), det)
                  + (CostScale - DistCost(PredBox(trk), det, frame_w, frame_h)))
                 \div 2) * TimeDecay(trk.lost)) \div CostScale)

\* Variant: the similarity is not weighted by the time lost.
RecoveryCostUndecayed(trk, det, frame_w, frame_h) ==
    IF Far(trk.last_detection, det, frame_w, frame_h)
    THEN Sentinel
    ELSE CostScale
           - ((compute_iou(trk.last_detection, det)
                + (CostScale - DistCost(trk.last_detection, det, frame_w, frame_h)))
               \div 2)

\* One entry of the recovery cost matrix: 1 - (iou + d_ij) / 2 * time_decay,
\* measured from the Track's last matched detection.
RecoveryCost(trk, det, frame_w, frame_h) ==
    IF Far(trk.last_detection, det, frame_w, frame_h)
    THEN Sentinel
    ELSE IF ZeroByZero(trk.last_detection, det, frame_w, frame_h) THEN NaN
    ELSE CostScale
           - ((((compute_iou(trk.last_detection, det)
                  + (CostScale - DistCost(trk.last_detection, det, frame_w, frame_h)))
                 \div 2) * TimeDecay(trk.lost)) \div CostScale)

-----------------------------------------------------------------------------
(* KalmanTracker: one Track *)

\* The doubled centre (x, y) of statePost; of a blended estimate the model
\* keeps no coordinates.
StateCenter(state) == IF state = Estimate THEN Estimate ELSE Center2(state)

\* Variant: a deque without maxlen.
DequeAppendUnbounded(history, entry, maxlen) == Append(history, entry)

\* deque(maxlen=max_history).append(entry): the oldest entries fall off the
\* left end once the deque is full.
DequeAppend(history, entry, maxlen) ==
    LET all == Append(history, entry)
    IN  IF Len(all) <= maxlen THEN all
        ELSE SubSeq(all, Len(all) - maxlen + 1, Len(all))

\* KalmanTracker.update_history: history.append((x, y)) of statePost.
update_history(history, state) ==
    DequeAppend(history, StateCenter(state), max_history)

\* KalmanTracker.__init__: the estimate is seeded with the box and zero
\* velocity and acceleration; predict_state is None until the first predict().
KalmanTracker(bbox, id_) ==
    [id |-> id_, age |-> 0, lost |-> 0, last_detection |-> bbox,
     predict_state |-> None, state |-> bbox, moving |-> FALSE,
     history |-> update_history(<<>>, bbox)]

\* What kf.predict() may return for a Track: with zero velocity and acceleration
\* the transition matrix maps the estimate to itself; otherwise the estimate moves.
KfPredict(trk) == IF trk.moving THEN KfBoxes ELSE {trk.state}

\* Variant: predict() also moves last_detection onto the predicted box.
predictMovesLastDetection(trk, p) ==
    [trk EXCEPT !.predict_state = p, !.state = p, !.last_detection = p,
                !.age = IF count_age THEN trk.age + 1 ELSE trk.age]

\* Variant: predict() also records the predicted centre in the history.
predictRecordsHistory(trk, p) ==
    [trk EXCEPT !.predict_state = p, !.state = p,
                !.history = update_history(trk.history, p),
                !.age = IF count_age THEN trk.age + 1 ELSE trk.age]

\* Variant: predict() leaves age as it is.
predictKeepsAge(trk, p) ==
    [trk EXCEPT !.predict_state = p, !.state = p]

\* KalmanTracker.predict with kf.predict() returning p: cv2 copies the predicted
\* state into statePost as well.
predict(trk, p) ==
    [trk EXCEPT !.predict_state = p, !.state = p,
                !.age = IF count_age THEN trk.age + 1 ELSE trk.age]

\* statePost after kf.correct(bbox): with zero innovation and zero velocity the
\* estimate stays on the measurement; otherwise it is a blend of the prediction
\* and the measurement, of which the model keeps no coordinates.
KfCorrect(trk, bbox) ==
    IF ~trk.moving /\ bbox = trk.state THEN bbox ELSE Estimate

\* KalmanTracker.update
update(trk, bbox) ==
    [trk EXCEPT !.state = KfCorrect(trk, bbox),
                !.last_detection = bbox,
                !.lost = 0,
                !.moving = (trk.moving \/ bbox # trk.state),
                !.history = update_history(trk.history, KfCorrect(trk, bbox))]

\* Variant: a miss is not counted.
MissNotCounted(trk) == trk

\* trk.lost += 1
Miss(trk) == [trk EXCEPT !.lost = trk.lost + 1]

get_state(trk) == trk.state

-----------------------------------------------------------------------------
(* scipy.optimize.linear_sum_assignment *)

Injections(K, L) ==
    {f \in [1..K -> 1..L] : \A a, b \in 1..K : a # b => f[a] # f[b]}

\* Every complete assignment of an N x M matrix: min(N, M) pairs <<row, col>>,
\* no row and no column used twice.
Assignments(N, M) ==
    IF N <= M
    THEN {{<<i, f[i]>> : i \in 1..N} : f \in Injections(N, M)}
    ELSE {{<<g[j], j>> : j \in 1..M} : g \in Injections(M, N)}

RECURSIVE TotalCost(_, _)
TotalCost(cost, pairs) ==
    IF pairs = {} THEN 0
    ELSE LET p == CHOOSE q \in pairs : TRUE
         IN  cost[p[1]][p[2]] + TotalCost(cost, pairs \ {p})

\* Variant: a solver that returns some complete assignment, minimal or not.
linear_sum_assignmentAny(cost, N, M) == Assignments(N, M)

\* The assignments of minimum total cost; the solver returns one of them.
linear_sum_assignment(cost, N, M) ==
    LET all == Assignments(N, M)
    IN  {a \in all : \A b \in all : TotalCost(cost, a) <= TotalCost(cost, b)}

\* valid_matches: the pairs of a solver result whose cost is accepted.
ValidMatches(cost, a) == {p \in a : Accepted(cost[p[1]][p[2]])}

-----------------------------------------------------------------------------
(* ObjectTracker: the three association stages *)

\* A sequence given by a rule, as an explicit tuple.
Tuple(seq) == seq \o <<>>

CostMatrix(trks, dets, frame_w, frame_h, Entry(_, _, _, _)) ==
    Tuple([i \in 1..Len(trks) |->
        Tuple([j \in 1..Len(dets) |-> Entry(trks[i], dets[j], frame_w, frame_h)])])

\* The results a stage may return: one set of accepted <<row, col>> pairs per
\* optimal assignment of its cost matrix.
Matching(N, M, cost_matrix) ==
    IF N = 0 \/ M = 0
    THEN {{}}
    ELSE UNION {{ValidMatches(cost, a) : a \in linear_sum_assignment(cost, N, M)} :
                cost \in {cost_matrix}}

_first_matching(trks, dets, frame_w, frame_h) ==
    Matching(Len(trks), Len(dets),
             CostMatrix(trks, dets, frame_w, frame_h, FirstCost))

_second_matching(trks, dets, frame_w, frame_h) ==
    Matching(Len(trks), Len(dets),
             CostMatrix(trks, dets, frame_w, frame_h, SecondCost))

_trajectory_recovery(trks, dets, frame_w, frame_h) ==
    Matching(Len(trks), Len(dets),
             CostMatrix(trks, dets, frame_w, frame_h, RecoveryCost))

-----------------------------------------------------------------------------
(* ObjectTracker.update *)

\* [i for i in range(n) if i not in excluded], as an ascending sequence.
RECURSIVE IndicesFrom(_, _, _)
IndicesFrom(i, n, excluded) ==
    IF i > n THEN <<>>
    ELSE IF i \in excluded THEN IndicesFrom(i + 1, n, excluded)
    ELSE <<i>> \o IndicesFrom(i + 1, n, excluded)

IndicesNotIn(n, excluded) == IndicesFrom(1, n, excluded)

Pick(seq, idx) == Tuple([k \in 1..Len(idx) |-> seq[idx[k]]])

\* Variant: a confidence equal to score_thresh counts as low.
HighScoreStrict(d) == DetScore(d) > ScoreThreshPct

\* s >= self.score_thresh
HighScore(d) == DetScore(d) >= ScoreThreshPct

high_score_idx(dets) ==
    IndicesNotIn(Len(dets), {i \in 1..Len(dets) : ~HighScore(dets[i])})

low_score_idx(dets) ==
    IndicesNotIn(Len(dets), {i \in 1..Len(dets) : HighScore(dets[i])})

det_boxes(dets) == Tuple([i \in 1..Len(dets) |-> DetBox(dets[i])])

\* Variant: the results are listed newest Track first.
ResultsNewestFirst(trks) ==
    Tuple([i \in 1..Len(trks) |->
        [id |-> trks[Len(trks) + 1 - i].id,
         bbox |-> get_state(trks[Len(trks) + 1 - i]),
         trace |-> trks[Len(trks) + 1 - i].history]])

\* _get_tracking_results
_get_tracking_results(trks) ==
    Tuple([i \in 1..Len(trks) |->
        [id |-> trks[i].id, bbox |-> get_state(trks[i]), trace |-> trks[i].history]])

Ids(results) == {results[i].id : i \in 1..Len(results)}

\* self.trackers = [trk for trk in self.trackers if trk.lost < self.max_lost]
Alive(trk) == trk.lost < max_lost

FilterLost(trks) == SelectSeq(trks, Alive)

\* The Tracks the filter leaves out, by id and last matched detection.
Dropped(trks) ==
    {[id |-> trks[i].id, last_detection |-> trks[i].last_detection] :
        i \in {k \in 1..Len(trks) : ~Alive(trks[k])}}

\* id_=None, the default of KalmanTracker.__init__, and the value count has
\* where the class attribute is not followed.
NoId == 0 - 1
NoCount == 0 - 1

\* KalmanTracker.__init__: self.id = KalmanTracker.count if id_ is None else id_
TrackId(id_, count_) == IF id_ = NoId THEN count_ ELSE id_

\* KalmanTracker.count after n constructions: count += 1 in each.
CountAfter(n) == IF count = NoCount THEN count ELSE count + n

\* Variant: the Tracks are constructed without id_.
SpawnIdDefault(k) == NoId

\* Variant: the ids of a call are counted from 1.
SpawnIdFromOne(k) == k

\* The id given to the k-th Track spawned in one call: id_=self.next_id.
SpawnId(k) == next_id + (k - 1)

\* Variant: the counter is not incremented.
NextIdKept(n) == next_id

\* Variant: the counter is incremented once per call that spawns.
NextIdOncePerCall(n) == IF n > 0 THEN next_id + 1 ELSE next_id

\* Variant: the counter is incremented twice for each spawn.
NextIdTwice(n) == next_id + 2 * n

\* The counter after n spawns: self.next_id += 1 for each.
NextIdAfter(n) == next_id + n

\* The predictions the live Tracks may make in one call.
Predictions ==
    {f \in [1..Len(trackers) -> KfBoxes \cup Boxes \cup BoxesB] :
        \A i \in 1..Len(trackers) : f[i] \in KfPredict(trackers[i])}

\* Variant: only the Tracks matched in the previous frame are predicted.
PredictAllMatchedOnly(preds) ==
    Tuple([i \in 1..Len(trackers) |->
        IF trackers[i].lost = 0 THEN predict(trackers[i], preds[i])
        ELSE trackers[i]])

\* No Track has reached the age the model counts up to.
AgeBounded == count_age => \A i \in 1..Len(trackers) : trackers[i].age < MaxAge

\* step 1: [trk.predict() for trk in self.trackers]
PredictAll(preds) ==
    Tuple([i \in 1..Len(trackers) |-> predict(trackers[i], preds[i])])

\* <<Track index, detection index>> of the pairs a stage accepted, from the
\* stage's own row and column numbers.
Remap(pairs, track_idx, det_idx) ==
    {<<track_idx[p[1]], det_idx[p[2]]>> : p \in pairs}

Rows(pairs) == {p[1] : p \in pairs}
Cols(pairs) == {p[2] : p \in pairs}

DetOf(pairs, i) ==
    IF i \in Rows(pairs) THEN (CHOOSE p \in pairs : p[1] = i)[2] ELSE 0

\* What step 6 does to Track i: the branch of the closeout loop it takes.
StageOf(high_pairs, low_pairs, rec_pairs, i) ==
    IF i \in Rows(high_pairs) THEN "high"
    ELSE IF i \in Rows(low_pairs) THEN "low"
    ELSE IF i \in Rows(rec_pairs) THEN "recovered"
    ELSE "miss"

\* The pairs of one stage, labelled with the stage.
Staged(pairs, stage) == {<<p[1], p[2], stage>> : p \in pairs}

\* Variant: Stage B is offered every Track.
UnmatchedTrackersAll(n, high_pairs) == IndicesNotIn(n, {})

\* unmatched_trackers = [i for i in range(len(self.trackers))
\*                       if i not in high_tracked_indices]
UnmatchedTrackers(n, high_pairs) == IndicesNotIn(n, Rows(high_pairs))

\* One entry of calls: what was done, and to which Track (index at call start).
Call(what, i) == [call |-> what, trk |-> i]

CallsOn(what, idx) == Tuple([k \in 1..Len(idx) |-> Call(what, idx[k])])

\* Stage A and Stage B read predict_state of every Track they are offered,
\* unless they return early for N == 0 or M == 0.
StageReads(track_idx, n_dets) ==
    IF Len(track_idx) = 0 \/ n_dets = 0 THEN <<>> ELSE CallsOn("read", track_idx)

\* The closeout loop, in list order: update() for a Stage A or Stage B match,
\* nothing for a recovered Track, lost += 1 otherwise.
CloseoutCalls(n, high_pairs, low_pairs, rec_pairs) ==
    SelectSeq(Tuple([i \in 1..n |->
                  Call(IF i \in Rows(high_pairs) \/ i \in Rows(low_pairs) THEN "update"
                       ELSE IF i \in Rows(rec_pairs) THEN "pass"
                       ELSE "miss", i)]),
              LAMBDA c : c.call # "pass")

\* How many times update() is called on Track i in one call of the manager:
\* once in the loop over recovered_tracks if it was recovered, once in the
\* closeout loop if Stage A or Stage B matched it.
UpdateCalls(high_pairs, low_pairs, rec_pairs, i) ==
    (IF i \in Rows(rec_pairs) THEN 1 ELSE 0)
        + (IF i \in Rows(high_pairs) \/ i \in Rows(low_pairs) THEN 1 ELSE 0)

\* step 5, the loop over recovered_tracks: update() at once for every recovered
\* Track (assigned_det is False for each of them: the detections offered to the
\* recovery stage are the unassigned ones, and the solver uses each once).
RecoveryLoop(trks, boxes, rec_pairs) ==
    Tuple([i \in 1..Len(trks) |->
        IF i \in Rows(rec_pairs)
        THEN update(trks[i], boxes[DetOf(rec_pairs, i)])
        ELSE trks[i]])

\* step 6, one Track of the closeout loop.
\* Variant: the loop has no branch for the Tracks recovered in step 5.
CloseoutTrackNoPass(trk, i, boxes, high_pairs, low_pairs, recovered_track_indices) ==
    IF i \in Rows(high_pairs) THEN update(trk, boxes[DetOf(high_pairs, i)])
    ELSE IF i \in Rows(low_pairs) THEN update(trk, boxes[DetOf(low_pairs, i)])
    ELSE Miss(trk)

CloseoutTrack(trk, i, boxes, high_pairs, low_pairs, recovered_track_indices) ==
    IF i \in Rows(high_pairs) THEN update(trk, boxes[DetOf(high_pairs, i)])
    ELSE IF i \in Rows(low_pairs) THEN update(trk, boxes[DetOf(low_pairs, i)])
    ELSE IF i \in recovered_track_indices THEN trk
    ELSE Miss(trk)

CloseoutLoop(trks, boxes, high_pairs, low_pairs, recovered_track_indices) ==
    Tuple([i \in 1..Len(trks) |->
        CloseoutTrack(trks[i], i, boxes, high_pairs, low_pairs,
                      recovered_track_indices)])

\* Variant: the new Tracks go through predict() within the call that seeds them.
BornPredicted(boxes, new_dets) ==
    Tuple([k \in 1..Len(new_dets) |->
        predict(KalmanTracker(boxes[new_dets[k]], SpawnId(k)), boxes[new_dets[k]])])

\* The Tracks seeded by the detections no stage claimed, in detection order;
\* the k-th is constructed after k - 1 others have raised KalmanTracker.count.
Born(boxes, new_dets) ==
    Tuple([k \in 1..Len(new_dets) |->
        KalmanTracker(boxes[new_dets[k]], TrackId(SpawnId(k), count + (k - 1)))])

Init ==
    /\ trackers = <<>>
    /\ next_id = 1
    /\ max_lost = MaxLostA
    /\ out = <<>>
    /\ in_dets = <<>>
    /\ in_shape = None
    /\ log = <<>>
    /\ spawned = <<>>
    /\ issued = <<>>
    /\ seen = {}
    /\ removed = {}
    /\ raised = FALSE
    /\ calls = <<>>
    /\ matches = {}
    /\ count_age = FALSE
    /\ max_history = 0
    /\ worker = None
    /\ pc = None
    /\ receiver = None
    /\ lived = None
    /\ count = NoCount
    /\ args = None
    /\ result = None

\* update() with len(dets) == 0: predict every Track, count a miss, return.
UpdateEmpty(frame_shape) ==
    /\ \A i \in 1..Len(trackers) : trackers[i].lost < max_lost + LostOver
    /\ AgeBounded
    /\ \E preds \in Predictions :
       \E trks \in {PredictAll(preds)} :
       \E after \in {Tuple([i \in 1..Len(trks) |-> Miss(trks[i])])} :
          /\ trackers' = after
          /\ out' = _get_tracking_results(after)
          /\ seen' = seen \cup Ids(_get_tracking_results(after))
          /\ log' = Tuple([i \in 1..Len(trackers) |->
                        [id |-> trackers[i].id, stage |-> "miss", det |-> 0,
                         pred |-> preds[i], read |-> None, updates |-> 0]])
          /\ matches' = {}
          /\ calls' = Tuple([k \in 1..2 * Len(trackers) |->
                          Call(IF k % 2 = 1 THEN "predict" ELSE "miss", (k + 1) \div 2)])
    /\ in_dets' = <<>>
    /\ in_shape' = frame_shape
    /\ spawned' = <<>>
    /\ raised' = FALSE
    /\ UNCHANGED <<next_id, max_lost, issued, removed, count_age, max_history, count,
                 args, result, receiver>>

\* The recovery stage of a call would divide 0.0 by the int 0 (ZeroDivisionError):
\* at c_sq = 0 no earlier stage accepts a pair, so recovery is offered every
\* Track and every detection, and a detection centred on a Track's
\* last_detection passes the gate.
RecoveryDividesByZero(dets, frame_shape) ==
    \E i \in 1..Len(trackers), j \in 1..Len(dets) :
        ZeroByZero(trackers[i].last_detection, DetBox(dets[j]),
                   FrameDims(frame_shape)[2], FrameDims(frame_shape)[1])

\* Stage A or Stage B of a call would hand a cost matrix holding a NaN to
\* linear_sum_assignment, which rejects it with ValueError in current scipy.
SolverGivenNaN(dets, frame_shape, preds) ==
    \E i \in 1..Len(trackers), j \in 1..Len(dets) :
        ZeroByZero(preds[i], DetBox(dets[j]),
                   FrameDims(frame_shape)[2], FrameDims(frame_shape)[1])

\* update() with at least one detection that ends in an exception: every Track
\* was predicted (step 1), nothing else happened and nothing is returned.
UpdateRaises(dets, frame_shape) ==
    /\ Len(dets) > 0
    /\ AgeBounded
    /\ \E preds \in Predictions :
          /\ \/ RecoveryDividesByZero(dets, frame_shape)
             \/ SolverGivenNaN(dets, frame_shape, preds)
          /\ trackers' = PredictAll(preds)
          /\ log' = Tuple([i \in 1..Len(trackers) |->
                        [id |-> trackers[i].id, stage |-> "raised", det |-> 0,
                         pred |-> preds[i], read |-> preds[i], updates |-> 0]])
          /\ matches' = {}
          /\ calls' = CallsOn("predict", IndicesNotIn(Len(trackers), {}))
                        \o CallsOn("read", IndicesNotIn(Len(trackers), {}))
    /\ in_dets' = dets
    /\ in_shape' = frame_shape
    /\ spawned' = <<>>
    /\ raised' = TRUE
    /\ UNCHANGED <<next_id, max_lost, out, issued, seen, removed, count_age, count,
                 max_history, args,
                   result, receiver>>

\* update() with at least one detection.  Values used more than once are bound
\* by \E over a singleton.
UpdateDets(dets, frame_shape, track_cap, id_cap) ==
    /\ Len(dets) > 0
    /\ AgeBounded
    /\ ~RecoveryDividesByZero(dets, frame_shape)
    /\ \E preds \in Predictions :
       \E frame_h \in {FrameDims(frame_shape)[1]}, frame_w \in {FrameDims(frame_shape)[2]} :
       \E boxes \in {det_boxes(dets)} :
       \* step 1: predict every Track
       \E trks \in {PredictAll(preds)} :
       \* step 2: split the detections by confidence
       \E high_idx \in {high_score_idx(dets)}, low_idx \in {low_score_idx(dets)} :
       \* step 3: Stage A, all Tracks against the high-confidence detections
       \E high \in _first_matching(trks, Pick(boxes, high_idx), frame_w, frame_h) :
       \E all_idx \in {IndicesNotIn(Len(trks), {})} :
       \E high_pairs \in {Remap(high, all_idx, high_idx)} :
       \* step 4: Stage B, the Tracks left against the low-confidence detections
       \E unmatched_trackers \in {UnmatchedTrackers(Len(trks), high_pairs)} :
       \E low \in _second_matching(Pick(trks, unmatched_trackers),
                                   Pick(boxes, low_idx), frame_w, frame_h) :
       \E low_pairs \in {Remap(low, unmatched_trackers, low_idx)} :
       \* step 5: recovery, the Tracks left against the detections left
       \E unmatched_tracks \in
            {IndicesNotIn(Len(trks), Rows(high_pairs) \cup Rows(low_pairs))} :
       \E unmatched_dets \in
            {IndicesNotIn(Len(dets), Cols(high_pairs) \cup Cols(low_pairs))} :
       \E rec \in _trajectory_recovery(Pick(trks, unmatched_tracks),
                                       Pick(boxes, unmatched_dets), frame_w, frame_h) :
       \E rec_pairs \in {Remap(rec, unmatched_tracks, unmatched_dets)} :
       \E pairs \in {high_pairs \cup low_pairs \cup rec_pairs} :
       \* step 6: update or miss every Track, spawn, drop the lost Tracks
       \E new_dets \in {IndicesNotIn(Len(dets), Cols(pairs))} :
       \E born \in {Born(boxes, new_dets)} :
       \E closed \in {CloseoutLoop(RecoveryLoop(trks, boxes, rec_pairs), boxes,
                                    high_pairs, low_pairs, Rows(rec_pairs))} :
       \E kept \in {FilterLost(closed \o born)} :
          /\ Len(kept) <= track_cap
          /\ NextIdAfter(Len(new_dets)) <= id_cap + 1
          /\ trackers' = kept
          /\ next_id' = NextIdAfter(Len(new_dets))
          /\ issued' = issued \o Tuple([k \in 1..Len(born) |-> born[k].id])
          /\ out' = _get_tracking_results(kept)
          /\ seen' = seen \cup Ids(_get_tracking_results(kept))
          /\ removed' = removed \cup Dropped(closed \o born)
          /\ log' = Tuple([i \in 1..Len(trks) |->
                        [id |-> trks[i].id,
                         stage |-> StageOf(high_pairs, low_pairs, rec_pairs, i),
                         det |-> DetOf(pairs, i),
                         pred |-> preds[i],
                         read |-> PredBox(trks[i]),
                         updates |-> UpdateCalls(high_pairs, low_pairs, rec_pairs, i)]])
          /\ matches' = Staged(high_pairs, "high") \cup Staged(low_pairs, "low")
                          \cup Staged(rec_pairs, "recovered")
          /\ calls' = CallsOn("predict", all_idx)
                        \o StageReads(all_idx, Len(high_idx))
                        \o StageReads(unmatched_trackers, Len(low_idx))
                        \o CallsOn("update", IndicesNotIn(Len(trks),
                                        (1..Len(trks)) \ Rows(rec_pairs)))
                        \o CloseoutCalls(Len(trks), high_pairs, low_pairs, rec_pairs)
          /\ spawned' = new_dets
          /\ count' = CountAfter(Len(new_dets))
    /\ in_dets' = dets
    /\ in_shape' = frame_shape
    /\ raised' = FALSE
    /\ UNCHANGED <<max_lost, count_age, max_history, args, result, receiver>>

DetLists == UNION {[1..n -> Detections] : n \in 1..MaxDets}

StepEmpty ==
    /\ \E fs \in FrameShapes : UpdateEmpty(fs)
    /\ Unchanged_worker

StepDets ==
    /\ \E dets \in DetLists, fs \in FrameShapes :
          UpdateDets(dets, fs, MaxTracks, MaxId)
    /\ Unchanged_worker

Next == StepEmpty \/ StepDets

Spec == Init /\ [][Next]_vars

-----------------------------------------------------------------------------
(* The same manager constructed with a max_lost large enough for the recovery   *)
(* stage to accept a pair, fed at most MaxDetsR detections per frame.           *)

InitR ==
    /\ trackers = <<>>
    /\ next_id = 1
    /\ max_lost = MaxLostR
    /\ out = <<>>
    /\ in_dets = <<>>
    /\ in_shape = None
    /\ log = <<>>
    /\ spawned = <<>>
    /\ issued = <<>>
    /\ seen = {}
    /\ removed = {}
    /\ raised = FALSE
    /\ calls = <<>>
    /\ matches = {}
    /\ count_age = FALSE
    /\ max_history = 0
    /\ worker = None
    /\ pc = None
    /\ receiver = None
    /\ lived = None
    /\ count = NoCount
    /\ args = None
    /\ result = None

DetListsR == UNION {[1..n -> Detections] : n \in 1..MaxDetsR}

StepEmptyR ==
    /\ \E fs \in FrameShapes : UpdateEmpty(fs)
    /\ Unchanged_worker

StepDetsR ==
    /\ \E dets \in DetListsR, fs \in FrameShapes :
          UpdateDets(dets, fs, MaxTracksR, MaxIdR)
    /\ Unchanged_worker

NextR == StepEmptyR \/ StepDetsR

SpecR == InitR /\ [][NextR]_vars

-----------------------------------------------------------------------------
(* The same manager fed frames whose dimensions are absent or zero.            *)

MaxTracksF == 2
MaxDetsF == 1
MaxIdF == 2

FrameShapesF == {None, <<0, 0>>}

InitF ==
    /\ trackers = <<>>
    /\ next_id = 1
    /\ max_lost = MaxLostA
    /\ out = <<>>
    /\ in_dets = <<>>
    /\ in_shape = None
    /\ log = <<>>
    /\ spawned = <<>>
    /\ issued = <<>>
    /\ seen = {}
    /\ removed = {}
    /\ raised = FALSE
    /\ calls = <<>>
    /\ matches = {}
    /\ count_age = FALSE
    /\ max_history = 0
    /\ worker = None
    /\ pc = None
    /\ receiver = None
    /\ lived = None
    /\ count = NoCount
    /\ args = None
    /\ result = None

DetListsF == UNION {[1..n -> Detections] : n \in 1..MaxDetsF}

StepEmptyF ==
    /\ \E fs \in FrameShapesF : UpdateEmpty(fs)
    /\ Unchanged_worker

StepDetsF ==
    /\ \E dets \in DetListsF, fs \in FrameShapesF :
          UpdateDets(dets, fs, MaxTracksF, MaxIdF)
    /\ Unchanged_worker

StepRaisesF ==
    /\ \E dets \in DetListsF, fs \in FrameShapesF : UpdateRaises(dets, fs)
    /\ Unchanged_worker

NextF == StepEmptyF \/ StepDetsF \/ StepRaisesF

SpecF == InitF /\ [][NextF]_vars

-----------------------------------------------------------------------------
(* The manager of SpecR fed up to MaxDetsR2 detections per frame, with        *)
(* confidences at and just below score_thresh.                                 *)

MaxDetsR2 == 2

DetectionsR2 == {Det(BoxA, ScoreThreshPct), Det(BoxB, ScoreThreshPct - 1),
                 Det(BoxC, 90)}

DetListsR2 == UNION {[1..n -> DetectionsR2] : n \in 1..MaxDetsR2}

StepEmptyR2 ==
    /\ \E fs \in FrameShapes : UpdateEmpty(fs)
    /\ Unchanged_worker

StepDetsR2 ==
    /\ \E dets \in DetListsR2, fs \in FrameShapes :
          UpdateDets(dets, fs, MaxTracksR, MaxIdR)
    /\ Unchanged_worker

NextR2 == StepEmptyR2 \/ StepDetsR2

SpecR2 == InitR /\ [][NextR2]_vars

-----------------------------------------------------------------------------
(* The manager of Spec with KalmanTracker.age counted, up to MaxAge.           *)

InitAge ==
    /\ trackers = <<>>
    /\ next_id = 1
    /\ max_lost = MaxLostA
    /\ out = <<>>
    /\ in_dets = <<>>
    /\ in_shape = None
    /\ log = <<>>
    /\ spawned = <<>>
    /\ issued = <<>>
    /\ seen = {}
    /\ removed = {}
    /\ raised = FALSE
    /\ calls = <<>>
    /\ matches = {}
    /\ count_age = TRUE
    /\ max_history = 0
    /\ worker = None
    /\ pc = None
    /\ receiver = None
    /\ lived = None
    /\ count = NoCount
    /\ args = None
    /\ result = None

\* One more update() call has returned: a Track that was live before it has
\* lived through one call more, one made by it through none.
Lived(before, trks) ==
    [id \in {trks[i].id : i \in 1..Len(trks)} |->
        IF id \in DOMAIN before THEN before[id] + 1 ELSE 0]

StepEmptyAge ==
    /\ \E fs \in FrameShapes : UpdateEmpty(fs)
    /\ lived' = Lived(lived, trackers')
    /\ UNCHANGED <<worker, pc>>

StepDetsAge ==
    /\ \E dets \in DetLists, fs \in FrameShapes :
          UpdateDets(dets, fs, MaxTracks, MaxId)
    /\ lived' = Lived(lived, trackers')
    /\ UNCHANGED <<worker, pc>>

NextAge == StepEmptyAge \/ StepDetsAge

SpecAge == InitAge /\ [][NextAge]_vars

-----------------------------------------------------------------------------
(* The manager of SpecAge with the trajectory of every Track recorded, in a    *)
(* deque of MaxHistory entries (30 in the source).                             *)

MaxHistory == 2

InitHist ==
    /\ trackers = <<>>
    /\ next_id = 1
    /\ max_lost = MaxLostA
    /\ out = <<>>
    /\ in_dets = <<>>
    /\ in_shape = None
    /\ log = <<>>
    /\ spawned = <<>>
    /\ issued = <<>>
    /\ seen = {}
    /\ removed = {}
    /\ raised = FALSE
    /\ calls = <<>>
    /\ matches = {}
    /\ count_age = TRUE
    /\ max_history = MaxHistory
    /\ args = None
    /\ result = None
    /\ worker = None
    /\ pc = None
    /\ receiver = None
    /\ lived = None
    /\ count = NoCount

StepEmptyHist ==
    /\ \E fs \in FrameShapes : UpdateEmpty(fs)
    /\ Unchanged_worker

StepDetsHist ==
    /\ \E dets \in DetLists, fs \in FrameShapes :
          UpdateDets(dets, fs, MaxTracks, MaxId)
    /\ Unchanged_worker

NextHist == StepEmptyHist \/ StepDetsHist

SpecHist == InitHist /\ [][NextHist]_vars

-----------------------------------------------------------------------------
(* The manager of Spec fed the boxes of BoxesB, mostly below score_thresh, so  *)
(* that Stage B has two Tracks and two detections to assign.                   *)

MaxTracksB == 2
MaxIdB == 4
MaxDetsB == 2
MaxLostB == 1

DetectionsB ==
    {Det(BoxA, 50), Det(BoxD, 50), Det(BoxE, 50), Det(BoxD, 90)}

DetListsB == UNION {[1..n -> DetectionsB] : n \in 1..MaxDetsB}

InitB ==
    /\ trackers = <<>>
    /\ next_id = 1
    /\ max_lost = MaxLostB
    /\ out = <<>>
    /\ in_dets = <<>>
    /\ in_shape = None
    /\ log = <<>>
    /\ spawned = <<>>
    /\ issued = <<>>
    /\ seen = {}
    /\ removed = {}
    /\ raised = FALSE
    /\ calls = <<>>
    /\ matches = {}
    /\ count_age = FALSE
    /\ max_history = 0
    /\ args = None
    /\ result = None
    /\ worker = None
    /\ pc = None
    /\ receiver = None
    /\ lived = None
    /\ count = NoCount

StepEmptyB ==
    /\ \E fs \in FrameShapes : UpdateEmpty(fs)
    /\ Unchanged_worker

StepDetsB ==
    /\ \E dets \in DetListsB, fs \in FrameShapes :
          UpdateDets(dets, fs, MaxTracksB, MaxIdB)
    /\ Unchanged_worker

NextB == StepEmptyB \/ StepDetsB

SpecB == InitB /\ [][NextB]_vars

-----------------------------------------------------------------------------
(* The manager of Spec with reset() among its calls, for two values of         *)
(* max_lost.                                                                   *)

\* The reset() calls followed.
MaxResets == 1

\* ObjectTracker.__init__: the fields update() reads and writes.
ObjectTracker(max_lost_) ==
    [trackers |-> <<>>, next_id |-> 1, max_lost |-> max_lost_]

\* The manager as it stands.
Manager == [trackers |-> trackers, next_id |-> next_id, max_lost |-> max_lost]

\* Variant: reset() that leaves next_id where it is.
ResetKeepsNextId(m) == [m EXCEPT !.trackers = <<>>]

\* ObjectTracker.reset: trackers = [], next_id = 1 (id_mapping, never filled,
\* is left out of the model).
Reset(m) == [m EXCEPT !.trackers = <<>>, !.next_id = 1]

\* args counts the reset() calls made.
InitReset ==
    /\ max_lost \in {MaxLostB, MaxLostA}
    /\ trackers = ObjectTracker(max_lost).trackers
    /\ next_id = ObjectTracker(max_lost).next_id
    /\ out = <<>>
    /\ in_dets = <<>>
    /\ in_shape = None
    /\ log = <<>>
    /\ spawned = <<>>
    /\ issued = <<>>
    /\ seen = {}
    /\ removed = {}
    /\ raised = FALSE
    /\ calls = <<>>
    /\ matches = {}
    /\ count_age = FALSE
    /\ max_history = 0
    /\ worker = None
    /\ pc = None
    /\ receiver = None
    /\ lived = None
    /\ count = NoCount
    /\ args = [resets |-> 0]
    /\ result = None

\* reset().  What the last update() call did stays on record; the records of
\* the ids issued, returned and dropped start over with the manager.
reset ==
    /\ args.resets < MaxResets
    /\ \E m \in {Reset(Manager)} :
          /\ trackers' = m.trackers
          /\ next_id' = m.next_id
          /\ max_lost' = m.max_lost
    /\ issued' = <<>>
    /\ seen' = {}
    /\ removed' = {}
    /\ args' = [resets |-> args.resets + 1]
    /\ UNCHANGED <<out, in_dets, in_shape, log, spawned, raised, calls, matches,
                   count_age, max_history, result, receiver, count>>
    /\ Unchanged_worker

NextReset == StepEmpty \/ StepDets \/ reset

SpecReset == InitReset /\ [][NextReset]_vars

-----------------------------------------------------------------------------
(* One manager next to another ObjectTracker instance.  The two share nothing  *)
(* but the class attribute KalmanTracker.count, so all the other instance does *)
(* to this one is to raise count, once for every Track it constructs, between  *)
(* any two calls of this one.                                                  *)

\* The Tracks the other instance constructs, and the caps on this one.
MaxOther == 3
MaxTracksTwo == 2
MaxIdTwo == 3

\* The lists of detections fed to this manager.
DetListsTwo ==
    UNION {[1..n -> {Det(BoxA, 90), Det(BoxC, 90)}] : n \in 1..2}

InitTwo ==
    /\ trackers = <<>>
    /\ next_id = 1
    /\ max_lost = MaxLostA
    /\ out = <<>>
    /\ in_dets = <<>>
    /\ in_shape = None
    /\ log = <<>>
    /\ spawned = <<>>
    /\ issued = <<>>
    /\ seen = {}
    /\ removed = {}
    /\ raised = FALSE
    /\ calls = <<>>
    /\ matches = {}
    /\ count_age = FALSE
    /\ max_history = 0
    /\ worker = None
    /\ pc = None
    /\ receiver = None
    /\ lived = None
    /\ count = 0
    /\ args = [other |-> 0]
    /\ result = None

StepEmptyTwo ==
    /\ \E fs \in FrameShapes : UpdateEmpty(fs)
    /\ Unchanged_worker

StepDetsTwo ==
    /\ \E dets \in DetListsTwo, fs \in FrameShapes :
          UpdateDets(dets, fs, MaxTracksTwo, MaxIdTwo)
    /\ Unchanged_worker

\* The other instance constructs a Track in one of its update() calls:
\* KalmanTracker.count += 1.  args counts these.
other_KalmanTracker ==
    /\ args.other < MaxOther
    /\ count' = count + 1
    /\ args' = [other |-> args.other + 1]
    /\ UNCHANGED <<trackers, next_id, max_lost, out, in_dets, in_shape, log,
                   spawned, issued, seen, removed, raised, calls, matches,
                   count_age, max_history, result, receiver>>
    /\ Unchanged_worker

NextTwo == StepEmptyTwo \/ StepDetsTwo \/ other_KalmanTracker

SpecTwo == InitTwo /\ [][NextTwo]_vars

-----------------------------------------------------------------------------
(* compute_iou and the cost of one pair in Stage B and in the recovery stage,  *)
(* applied to two boxes that may be degenerate (x2 <= x1 or y2 <= y1).         *)

IouCoordMax == 2

IouBoxes == {<<x1, y1, x2, y2>> : x1 \in 0..IouCoordMax, y1 \in 0..IouCoordMax,
                                   x2 \in 0..IouCoordMax, y2 \in 0..IouCoordMax}

\* A Track whose predicted box and last matched detection are both the box a.
TrackAt(a, lost) ==
    [KalmanTracker(a, 1) EXCEPT !.predict_state = a, !.lost = lost]

InitIou ==
    /\ trackers = <<>>
    /\ next_id = 1
    /\ max_lost = MaxLostR
    /\ out = <<>>
    /\ in_dets = <<>>
    /\ in_shape = None
    /\ log = <<>>
    /\ spawned = <<>>
    /\ issued = <<>>
    /\ seen = {}
    /\ removed = {}
    /\ raised = FALSE
    /\ calls = <<>>
    /\ matches = {}
    /\ count_age = FALSE
    /\ max_history = 0
    /\ worker = None
    /\ pc = None
    /\ receiver = None
    /\ lived = None
    /\ count = NoCount
    /\ args \in {[a |-> a, b |-> b] : a \in IouBoxes, b \in IouBoxes}
    /\ result = None

Unchanged_manager ==
    UNCHANGED <<trackers, next_id, max_lost, out, in_dets, in_shape, log,
                spawned, issued, seen, removed, raised, calls, matches,
                count_age, max_history, args, worker, pc, receiver, lived,
                count>>

\* compute_iou(a, b) and compute_iou(b, a)
CallIou ==
    /\ result = None
    /\ result' = [op |-> "iou", ab |-> compute_iou(args.a, args.b),
                  ba |-> compute_iou(args.b, args.a)]
    /\ Unchanged_manager

\* The Stage B cost of a Track predicted at a and the detection b, and whether
\* the pair would be accepted.
CallSecond ==
    /\ result = None
    /\ \E fs \in FrameShapes :
       \E cost \in {SecondCost(TrackAt(args.a, 0), args.b,
                                FrameDims(fs)[2], FrameDims(fs)[1])} :
          result' = [op |-> "second", cost |-> cost, accepted |-> Accepted(cost)]
    /\ Unchanged_manager

\* The recovery cost of a Track last matched at a and the detection b.
CallRecovery ==
    /\ result = None
    /\ \E fs \in FrameShapes, lost \in 0..MaxLostR :
       \E cost \in {RecoveryCost(TrackAt(args.a, lost), args.b,
                                  FrameDims(fs)[2], FrameDims(fs)[1])} :
          result' = [op |-> "recovery", lost |-> lost, cost |-> cost,
                     accepted |-> Accepted(cost)]
    /\ Unchanged_manager

NextIou == CallIou \/ CallSecond \/ CallRecovery

SpecIou == InitIou /\ [][NextIou]_vars

-----------------------------------------------------------------------------
(* The solver and the acceptance test shared by the three stages, applied to *)
(* cost matrices whose entries lie at, around and far from match_threshold.   *)

MaxDim == 2

CostValues ==
    {0, match_threshold - 1, match_threshold, match_threshold + 1, Sentinel}

CostMatrices ==
    UNION {[1..N -> [1..M -> CostValues]] : N \in 1..MaxDim, M \in 1..MaxDim}

InitMatch ==
    /\ trackers = <<>>
    /\ next_id = 1
    /\ max_lost = MaxLostR
    /\ out = <<>>
    /\ in_dets = <<>>
    /\ in_shape = None
    /\ log = <<>>
    /\ spawned = <<>>
    /\ issued = <<>>
    /\ seen = {}
    /\ removed = {}
    /\ raised = FALSE
    /\ calls = <<>>
    /\ matches = {}
    /\ count_age = FALSE
    /\ max_history = 0
    /\ worker = None
    /\ pc = None
    /\ receiver = None
    /\ lived = None
    /\ count = NoCount
    /\ args \in {[cost_matrix |-> c] : c \in CostMatrices}
    /\ result = None

\* linear_sum_assignment(cost_matrix) followed by the valid_matches loop.
CallMatching ==
    /\ result = None
    /\ \E valid \in Matching(Len(args.cost_matrix), Len(args.cost_matrix[1]),
                              args.cost_matrix) :
          result' = [op |-> "matching", valid_matches |-> valid]
    /\ Unchanged_manager

NextMatch == CallMatching

SpecMatch == InitMatch /\ [][NextMatch]_vars

-----------------------------------------------------------------------------
(* The recovery stage applied to one Track and one detection: to two Tracks   *)
(* that differ only in their motion estimate, and over every value of lost.    *)

FrameShapesRec == FrameShapes \cup {None}

RecArgs ==
    {[last |-> l, det |-> d, lost |-> k, pred1 |-> p1, pred2 |-> p2, shape |-> fs] :
        l \in Boxes, d \in Boxes, k \in 0..MaxLostR, p1 \in Boxes, p2 \in Boxes,
        fs \in FrameShapesRec}

\* A Track last matched on the box last, lost for the given number of frames,
\* whose Kalman prediction is the box pred.
TrackWith(last, lost, pred, moving) ==
    [KalmanTracker(last, 1) EXCEPT !.lost = lost, !.predict_state = pred,
                                   !.state = pred, !.moving = moving]

InitRec ==
    /\ trackers = <<>>
    /\ next_id = 1
    /\ max_lost = MaxLostR
    /\ out = <<>>
    /\ in_dets = <<>>
    /\ in_shape = None
    /\ log = <<>>
    /\ spawned = <<>>
    /\ issued = <<>>
    /\ seen = {}
    /\ removed = {}
    /\ raised = FALSE
    /\ calls = <<>>
    /\ matches = {}
    /\ count_age = FALSE
    /\ max_history = 0
    /\ worker = None
    /\ pc = None
    /\ receiver = None
    /\ lived = None
    /\ count = NoCount
    /\ args \in RecArgs
    /\ result = None

\* _trajectory_recovery for the detection and either of two Tracks with the
\* same last_detection and lost, one at rest predicted at pred1 and one moving
\* predicted at pred2.
CallRecoveryTwo ==
    /\ result = None
    /\ \E frame_h \in {FrameDims(args.shape)[1]}, frame_w \in {FrameDims(args.shape)[2]} :
       \E t1 \in {TrackWith(args.last, args.lost, args.pred1, FALSE)},
          t2 \in {TrackWith(args.last, args.lost, args.pred2, TRUE)} :
       \E m1 \in _trajectory_recovery(<<t1>>, <<args.det>>, frame_w, frame_h),
          m2 \in _trajectory_recovery(<<t2>>, <<args.det>>, frame_w, frame_h) :
          result' = [op |-> "recovery_two",
                     cost1 |-> RecoveryCost(t1, args.det, frame_w, frame_h),
                     cost2 |-> RecoveryCost(t2, args.det, frame_w, frame_h),
                     valid1 |-> m1, valid2 |-> m2]
    /\ Unchanged_manager

\* The time-decay weight and the recovery cost of the pair for every value of
\* lost from 0 to MaxLostR.
CallRecoveryOverLost ==
    /\ result = None
    /\ \E frame_h \in {FrameDims(args.shape)[1]}, frame_w \in {FrameDims(args.shape)[2]} :
          result' = [op |-> "recovery_over_lost",
                     weight |-> [k \in 0..MaxLostR |-> TimeDecay(k)],
                     cost |-> [k \in 0..MaxLostR |->
                                RecoveryCost(TrackWith(args.last, k, args.pred1, FALSE),
                                             args.det, frame_w, frame_h)]]
    /\ Unchanged_manager

NextRec == CallRecoveryTwo \/ CallRecoveryOverLost

SpecRec == InitRec /\ [][NextRec]_vars

-----------------------------------------------------------------------------
(* _first_matching applied to up to MaxPairsG Tracks and up to MaxPairsG       *)
(* detections on a row of boxes, each within the gate of its neighbours only.  *)

MaxPairsG == 3

BoxF == <<12, 0, 20, 8>>
BoxesG == {BoxA, BoxD, BoxE, BoxF}

BoxListsG == UNION {[1..n -> BoxesG] : n \in 1..MaxPairsG}

InitGate ==
    /\ trackers = <<>>
    /\ next_id = 1
    /\ max_lost = MaxLostA
    /\ out = <<>>
    /\ in_dets = <<>>
    /\ in_shape = None
    /\ log = <<>>
    /\ spawned = <<>>
    /\ issued = <<>>
    /\ seen = {}
    /\ removed = {}
    /\ raised = FALSE
    /\ calls = <<>>
    /\ matches = {}
    /\ count_age = FALSE
    /\ max_history = 0
    /\ worker = None
    /\ pc = None
    /\ receiver = None
    /\ lived = None
    /\ count = NoCount
    /\ args \in {[preds |-> p, dets |-> d, shape |-> fs] :
                    p \in BoxListsG, d \in BoxListsG, fs \in FrameShapes}
    /\ result = None

\* _first_matching for Tracks predicted at args.preds and the boxes args.dets.
CallFirstMatching ==
    /\ result = None
    /\ \E frame_h \in {FrameDims(args.shape)[1]}, frame_w \in {FrameDims(args.shape)[2]} :
       \E trks \in {Tuple([i \in 1..Len(args.preds) |-> TrackAt(args.preds[i], 0)])} :
       \E valid \in _first_matching(trks, args.dets, frame_w, frame_h) :
          result' = [op |-> "first",
                     cost_matrix |-> CostMatrix(trks, args.dets, frame_w, frame_h,
                                                FirstCost),
                     valid_matches |-> valid]
    /\ Unchanged_manager

NextGate == CallFirstMatching

SpecGate == InitGate /\ [][NextGate]_vars

-----------------------------------------------------------------------------
(* The DetectionWorker of gui_main.py and the threads that touch its manager:  *)
(* the GUI thread (start_detection, stop_detection), the QThread that runs     *)
(* DetectionWorker.run, and the tracking_consumer threads that run starts.     *)
(* Every step below is one read or one write of a shared field, so that the    *)
(* interleavings of the three are all there.                                   *)

\* The threading.Thread objects created over the run, the maxsize of
\* detection_queue (10 in the source), and the caps on the manager.
MaxThreads == 2
QueueMax == 1
MaxTracksT == 1
MaxIdT == 2

\* ObjectTracker(max_lost=4)
MaxLostT == 4

\* The specification that follows frames through the queue: the maxsize of
\* detection_queue there, and the number of process_frame calls followed.
QueueMaxQ == 2
MaxFrames == 4

Consumers == 1..MaxThreads

NoThread == 0       \* tracking_thread = None

\* What process_frame puts on the queue, and the None that stop_tracking_thread
\* puts.  The frame is left out; frame stands for its identity, the number of
\* the process_frame call that copied it (0 where the calls are not counted).
QueueData(dets, frame) == [kind |-> "data", detections |-> dets, frame |-> frame]
StopSignal == [kind |-> "stop", detections |-> <<>>, frame |-> 0]

\* Variant: a put that goes to the head of the queue.
putFirst(q, item, maxsize) == IF Len(q) < maxsize THEN <<item>> \o q ELSE q

\* queue.Queue.put with a timeout, queue.Full ignored by the caller: the item
\* goes to the tail unless the queue holds maxsize items.
put(q, item, maxsize) == IF Len(q) < maxsize THEN Append(q, item) ELSE q

\* The detection lists process_frame produces.
FrameDets == {<<>>, <<Det(BoxA, 90)>>}

\* frame.shape of the frames fed.
FrameShapeT == <<30, 40>>

\* threading.Thread.is_alive(): started and not yet finished.
is_alive(k) == pc.consumer[k].at \notin {"unborn", "created", "dead"}

\* Variant: start_tracking_thread without its test.
NeedsThreadAlways(tracking_thread) == TRUE

\* The test of start_tracking_thread.
NeedsThread(tracking_thread) ==
    tracking_thread = NoThread \/ ~is_alive(tracking_thread)

Unchanged_tracker ==
    UNCHANGED <<trackers, next_id, max_lost, out, in_dets, in_shape, log,
                spawned, issued, seen, removed, raised, calls, matches,
                count_age, max_history, args, result, receiver, lived,
                count>>

At(k, where) == [pc EXCEPT !.consumer[k].at = where]

\* The thread of tracking_consumer ends: the loop condition failed ("flag"),
\* the None was taken off the queue ("sentinel") or an exception broke the loop.
Ended(k, why) ==
    [pc EXCEPT !.consumer[k].at = "dead", !.consumer[k].ended = why]

\* DetectionWorker.__init__, with the maxsize of detection_queue.  produced
\* counts the calls of process_frame and handed lists the frames given to
\* tracker.update, both only where count_frames is set.
DetectionWorker(maxsize, count_frames) ==
    [tracking_running |-> FALSE, tracking_thread |-> NoThread,
     detection_queue |-> <<>>, maxsize |-> maxsize,
     abort |-> FALSE, restart |-> FALSE, currently_processing |-> FALSE,
     count_frames |-> count_frames, produced |-> 0, handed |-> <<>>]

\* No thread is running: the GUI is idle, run and the consumers not started.
Threads ==
    [gui |-> "idle", run |-> "unstarted",
     consumer |-> [k \in Consumers |->
         [at |-> "unborn", data |-> <<>>, frame |-> 0, stopped |-> FALSE,
          ended |-> "no"]]]

InitT ==
    /\ trackers = <<>>
    /\ next_id = 1
    /\ max_lost = MaxLostT
    /\ out = <<>>
    /\ in_dets = <<>>
    /\ in_shape = None
    /\ log = <<>>
    /\ spawned = <<>>
    /\ issued = <<>>
    /\ seen = {}
    /\ removed = {}
    /\ raised = FALSE
    /\ calls = <<>>
    /\ matches = {}
    /\ count_age = FALSE
    /\ max_history = 0
    /\ args = None
    /\ result = None
    /\ worker = DetectionWorker(QueueMax, FALSE)
    /\ pc = Threads
    /\ receiver = None
    /\ lived = None
    /\ count = NoCount

\* GUI thread, start_detection: set_source, then thread.start() unless running.
start_detection ==
    /\ pc.gui = "idle"
    /\ worker' = [worker EXCEPT !.restart = TRUE, !.abort = FALSE]
    /\ pc' = [pc EXCEPT !.run = IF @ = "unstarted" THEN "top" ELSE @]
    /\ Unchanged_tracker

\* GUI thread, stop_detection -> stop(): abort under the mutex.  Every thread
\* not yet ended notes that a stop has been called since it was started.
stop ==
    /\ pc.gui = "idle"
    /\ worker' = [worker EXCEPT !.abort = TRUE]
    /\ pc' = [pc EXCEPT !.gui = "stop_flag",
                        !.consumer = [k \in Consumers |->
                            [@[k] EXCEPT !.stopped = (@ \/ pc.consumer[k].at # "dead")]]]
    /\ Unchanged_tracker

\* stop_tracking_thread: self.tracking_running = False
stop_tracking_thread_flag ==
    /\ pc.gui = "stop_flag"
    /\ worker' = [worker EXCEPT !.tracking_running = FALSE]
    /\ pc' = [pc EXCEPT !.gui = "stop_drain"]
    /\ Unchanged_tracker

\* stop_tracking_thread: one turn of the loop that empties the queue.
stop_tracking_thread_drain ==
    /\ pc.gui = "stop_drain"
    /\ IF worker.detection_queue = <<>>
       THEN /\ pc' = [pc EXCEPT !.gui = "stop_put"]
            /\ UNCHANGED worker
       ELSE /\ worker' = [worker EXCEPT !.detection_queue = Tail(@)]
            /\ UNCHANGED pc
    /\ Unchanged_tracker

\* stop_tracking_thread: put(None, timeout=0.1), queue.Full ignored.
stop_tracking_thread_put ==
    /\ pc.gui = "stop_put"
    /\ worker' = [worker EXCEPT !.detection_queue =
                      put(@, StopSignal, worker.maxsize)]
    /\ pc' = [pc EXCEPT !.gui = "stop_join"]
    /\ Unchanged_tracker

\* stop_tracking_thread: join(timeout=1.0) returns, the thread finished or not.
stop_tracking_thread_join ==
    /\ pc.gui = "stop_join"
    /\ pc' = [pc EXCEPT !.gui = "idle"]
    /\ UNCHANGED worker
    /\ Unchanged_tracker

\* run, the head of the outer loop under the mutex: wait for restart or abort,
\* swallow an abort, or take up the task.
run_wait ==
    /\ pc.run = "top"
    /\ worker.restart \/ worker.abort
    /\ IF worker.abort
       THEN /\ worker' = [worker EXCEPT !.abort = FALSE, !.restart = FALSE]
            /\ UNCHANGED pc
       ELSE /\ worker' = [worker EXCEPT !.restart = FALSE,
                                        !.currently_processing = TRUE]
            /\ pc' = [pc EXCEPT !.run = "start_check"]
    /\ Unchanged_tracker

\* start_tracking_thread: if self.tracking_thread is None or not is_alive()
start_tracking_thread_check ==
    /\ pc.run = "start_check"
    /\ pc' = [pc EXCEPT !.run = IF NeedsThread(worker.tracking_thread)
                               THEN "start_flag" ELSE "frames"]
    /\ UNCHANGED worker
    /\ Unchanged_tracker

\* start_tracking_thread: self.tracking_running = True
start_tracking_thread_flag ==
    /\ pc.run = "start_flag"
    /\ worker' = [worker EXCEPT !.tracking_running = TRUE]
    /\ pc' = [pc EXCEPT !.run = "start_new"]
    /\ Unchanged_tracker

\* start_tracking_thread: self.tracking_thread = threading.Thread(...)
start_tracking_thread_new ==
    /\ pc.run = "start_new"
    /\ \E k \in Consumers :
          /\ pc.consumer[k].at = "unborn"
          /\ \A j \in 1..(k - 1) : pc.consumer[j].at # "unborn"
          /\ worker' = [worker EXCEPT !.tracking_thread = k]
          /\ pc' = [pc EXCEPT !.run = "start_start", !.consumer[k].at = "created"]
    /\ Unchanged_tracker

\* start_tracking_thread: self.tracking_thread.start()
start_tracking_thread_start ==
    /\ pc.run = "start_start"
    /\ pc' = [pc EXCEPT !.run = "frames",
                        !.consumer[worker.tracking_thread].at = "loop",
                        !.consumer[worker.tracking_thread].stopped =
                            (pc.gui # "idle")]
    /\ UNCHANGED worker
    /\ Unchanged_tracker

\* run, the head of the inner loop: break on abort or restart, or the source
\* has no further frame; the finally clause follows either.
run_frames ==
    /\ pc.run = "frames"
    /\ \E more \in BOOLEAN :
          IF worker.abort \/ worker.restart \/ ~more
          THEN /\ worker' = [worker EXCEPT !.currently_processing = FALSE]
               /\ pc' = [pc EXCEPT !.run = "top"]
          ELSE /\ pc' = [pc EXCEPT !.run = "frame"]
               /\ UNCHANGED worker
    /\ Unchanged_tracker

\* process_frame: put(queue_data, timeout=0.01), queue.Full ignored.
process_frame ==
    /\ pc.run = "frame"
    /\ worker.count_frames => worker.produced < MaxFrames
    /\ \E dets \in FrameDets :
       \E frame \in {IF worker.count_frames THEN worker.produced + 1 ELSE 0} :
          worker' = [worker EXCEPT !.detection_queue =
                                       put(@, QueueData(dets, frame), worker.maxsize),
                                   !.produced = frame]
    /\ pc' = [pc EXCEPT !.run = "frames"]
    /\ Unchanged_tracker

\* Variant: a loop that does not test the flag.
LoopGoesOnAlways(w) == TRUE

\* tracking_consumer: the condition of `while self.tracking_running`.
LoopGoesOn(w) == w.tracking_running

\* tracking_consumer: while self.tracking_running
tracking_consumer_loop(k) ==
    /\ pc.consumer[k].at = "loop"
    /\ pc' = IF LoopGoesOn(worker) THEN At(k, "get") ELSE Ended(k, "flag")
    /\ UNCHANGED worker
    /\ Unchanged_tracker

\* tracking_consumer: get(timeout=0.1); queue.Empty continues, None breaks.
tracking_consumer_get(k) ==
    /\ pc.consumer[k].at = "get"
    /\ IF worker.detection_queue = <<>>
       THEN /\ pc' = At(k, "loop")
            /\ UNCHANGED worker
       ELSE /\ worker' = [worker EXCEPT !.detection_queue = Tail(@)]
            /\ pc' = IF Head(worker.detection_queue).kind = "stop"
                     THEN Ended(k, "sentinel")
                     ELSE [pc EXCEPT !.consumer[k].at = "update",
                                     !.consumer[k].data =
                                         Head(worker.detection_queue).detections,
                                     !.consumer[k].frame =
                                         Head(worker.detection_queue).frame]
    /\ Unchanged_tracker

\* tracking_consumer: self.tracker.update(...) is entered.
tracking_consumer_call(k) ==
    /\ pc.consumer[k].at = "update"
    /\ pc' = At(k, "in_update")
    /\ worker' = [worker EXCEPT !.handed = IF worker.count_frames
                                           THEN Append(@, pc.consumer[k].frame)
                                           ELSE @]
    /\ Unchanged_tracker

\* tracking_consumer: self.tracker.update(...) returns.
tracking_consumer_return(k) ==
    /\ pc.consumer[k].at = "in_update"
    /\ IF pc.consumer[k].data = <<>>
       THEN UpdateEmpty(FrameShapeT)
       ELSE UpdateDets(pc.consumer[k].data, FrameShapeT, MaxTracksT, MaxIdT)
    /\ pc' = At(k, "draw")
    /\ UNCHANGED <<worker, lived>>

\* tracking_consumer: the drawing, image_ready.emit and task_done; an
\* exception raised there ends the thread.
tracking_consumer_done(k) ==
    /\ pc.consumer[k].at = "draw"
    /\ \E raises \in BOOLEAN :
          pc' = [IF raises THEN Ended(k, "error") ELSE At(k, "loop")
                    EXCEPT !.consumer[k].data = <<>>, !.consumer[k].frame = 0]
    /\ UNCHANGED worker
    /\ Unchanged_tracker

StepGui ==
    \/ start_detection
    \/ stop
    \/ stop_tracking_thread_flag
    \/ stop_tracking_thread_drain
    \/ stop_tracking_thread_put
    \/ stop_tracking_thread_join

StepRun ==
    \/ run_wait
    \/ start_tracking_thread_check
    \/ start_tracking_thread_flag
    \/ start_tracking_thread_new
    \/ start_tracking_thread_start
    \/ run_frames
    \/ process_frame

StepConsumer ==
    \E k \in Consumers :
        \/ tracking_consumer_loop(k)
        \/ tracking_consumer_get(k)
        \/ tracking_consumer_call(k)
        \/ tracking_consumer_return(k)
        \/ tracking_consumer_done(k)

NextT == StepGui \/ StepRun \/ StepConsumer

SpecT == InitT /\ [][NextT]_vars

\* One step of consumer thread k.
ConsumerStep(k) ==
    \/ tracking_consumer_loop(k)
    \/ tracking_consumer_get(k)
    \/ tracking_consumer_call(k)
    \/ tracking_consumer_return(k)
    \/ tracking_consumer_done(k)

\* The threads with every started consumer thread scheduled again and again:
\* get(timeout=0.1) returns within its timeout, and the processing of a frame
\* finishes.  Nothing is assumed of the GUI or of run.
SpecTFair == SpecT /\ \A k \in Consumers : WF_vars(ConsumerStep(k))

\* The same threads with every frame numbered by the process_frame call that
\* made it.
InitQ ==
    /\ trackers = <<>>
    /\ next_id = 1
    /\ max_lost = MaxLostT
    /\ out = <<>>
    /\ in_dets = <<>>
    /\ in_shape = None
    /\ log = <<>>
    /\ spawned = <<>>
    /\ issued = <<>>
    /\ seen = {}
    /\ removed = {}
    /\ raised = FALSE
    /\ calls = <<>>
    /\ matches = {}
    /\ count_age = FALSE
    /\ max_history = 0
    /\ args = None
    /\ result = None
    /\ worker = DetectionWorker(QueueMaxQ, TRUE)
    /\ pc = Threads
    /\ receiver = None
    /\ lived = None
    /\ count = NoCount

SpecQ == InitQ /\ [][NextT]_vars

-----------------------------------------------------------------------------
(* The AndroidVideoReceiver of python_receiver.py: the handler upload_frame,   *)
(* which the server runs one request at a time, and the thread that takes the  *)
(* frames off frame_queue (DetectionWorker.run in the GUI,                     *)
(* display_video_stream without it).  Every queue operation is one step.       *)

\* The maxsize of frame_queue (500 in the source) and the requests followed.
QueueMaxU == 2
MaxUploads == 5

\* AndroidVideoReceiver.__init__.  A queued (frame, timestamp) is the number of
\* the request that brought it; received counts the requests with a decodable
\* frame and taken lists the frames the consuming thread got.
AndroidVideoReceiver(maxsize) ==
    [frame_queue |-> <<>>, maxsize |-> maxsize, frame_count |-> 0,
     dropped_frame_count |-> 0, received |-> 0, taken |-> <<>>]

\* The handler between requests.  Its locals: the frame of the request, whether
\* the first put_nowait raised queue.Full, what its get_nowait returned, and
\* dropped_frame_count as the request found it.
NoRequest == [at |-> "idle", frame |-> 0, full |-> FALSE, got |-> <<>>, dropped |-> 0]

Unchanged_app ==
    UNCHANGED <<trackers, next_id, max_lost, out, in_dets, in_shape, log,
                spawned, issued, seen, removed, raised, calls, matches,
                count_age, max_history, args, result, worker, lived,
                count>>

InitU ==
    /\ trackers = <<>>
    /\ next_id = 1
    /\ max_lost = MaxLostT
    /\ out = <<>>
    /\ in_dets = <<>>
    /\ in_shape = None
    /\ log = <<>>
    /\ spawned = <<>>
    /\ issued = <<>>
    /\ seen = {}
    /\ removed = {}
    /\ raised = FALSE
    /\ calls = <<>>
    /\ matches = {}
    /\ count_age = FALSE
    /\ max_history = 0
    /\ args = None
    /\ result = None
    /\ worker = None
    /\ pc = [upload |-> NoRequest]
    /\ receiver = AndroidVideoReceiver(QueueMaxU)
    /\ lived = None
    /\ count = NoCount

\* upload_frame: a request arrives and its image decodes (one that does not
\* is answered 400 before the queue is touched).
upload_frame_decode ==
    /\ pc.upload.at = "idle"
    /\ receiver.received < MaxUploads
    /\ receiver' = [receiver EXCEPT !.received = @ + 1]
    /\ pc' = [pc EXCEPT !.upload = [at |-> "put", frame |-> receiver.received + 1,
                                    full |-> FALSE, got |-> <<>>,
                                    dropped |-> receiver.dropped_frame_count]]
    /\ Unchanged_app

\* upload_frame: self.frame_queue.put_nowait((frame, timestamp))
upload_frame_put ==
    /\ pc.upload.at = "put"
    /\ IF Len(receiver.frame_queue) < receiver.maxsize
       THEN /\ receiver' = [receiver EXCEPT !.frame_queue = Append(@, pc.upload.frame)]
            /\ pc' = [pc EXCEPT !.upload.at = "count"]
       ELSE /\ pc' = [pc EXCEPT !.upload.at = "get", !.upload.full = TRUE]
            /\ UNCHANGED receiver
    /\ Unchanged_app

\* upload_frame, except queue.Full: self.frame_queue.get_nowait(); queue.Empty
\* is passed over.
upload_frame_get ==
    /\ pc.upload.at = "get"
    /\ IF receiver.frame_queue = <<>>
       THEN /\ pc' = [pc EXCEPT !.upload.at = "count"]
            /\ UNCHANGED receiver
       ELSE /\ receiver' = [receiver EXCEPT !.frame_queue = Tail(@)]
            /\ pc' = [pc EXCEPT !.upload.at = "reput",
                                !.upload.got = <<Head(receiver.frame_queue)>>]
    /\ Unchanged_app

\* upload_frame, except queue.Full: the second put_nowait; a queue.Full raised
\* here is caught by the outer except Exception, which answers 500.
upload_frame_reput ==
    /\ pc.upload.at = "reput"
    /\ IF Len(receiver.frame_queue) < receiver.maxsize
       THEN /\ receiver' = [receiver EXCEPT !.frame_queue = Append(@, pc.upload.frame)]
            /\ pc' = [pc EXCEPT !.upload.at = "dropped"]
       ELSE /\ pc' = [pc EXCEPT !.upload.at = "idle"]
            /\ UNCHANGED receiver
    /\ Unchanged_app

\* upload_frame, except queue.Full: self.dropped_frame_count += 1
upload_frame_dropped ==
    /\ pc.upload.at = "dropped"
    /\ receiver' = [receiver EXCEPT !.dropped_frame_count = @ + 1]
    /\ pc' = [pc EXCEPT !.upload.at = "count"]
    /\ Unchanged_app

\* upload_frame: self.frame_count += 1 and the 200 answer.
upload_frame_count ==
    /\ pc.upload.at = "count"
    /\ receiver' = [receiver EXCEPT !.frame_count = @ + 1]
    /\ pc' = [pc EXCEPT !.upload.at = "idle"]
    /\ Unchanged_app

\* The consuming thread: frame_queue.get(timeout=0.1) returns a frame.
frame_queue_get ==
    /\ receiver.frame_queue # <<>>
    /\ receiver' = [receiver EXCEPT !.frame_queue = Tail(@),
                                    !.taken = Append(@, Head(receiver.frame_queue))]
    /\ UNCHANGED pc
    /\ Unchanged_app

NextU ==
    \/ upload_frame_decode
    \/ upload_frame_put
    \/ upload_frame_get
    \/ upload_frame_reput
    \/ upload_frame_dropped
    \/ upload_frame_count
    \/ frame_queue_get

SpecU == InitU /\ [][NextU]_vars

-----------------------------------------------------------------------------
(* The line-crossing counters of DetectionWorker: the consumer thread's loop   *)
(* over the tracks of a frame (check_line_crossing, self.counter += 1), which  *)
(* takes no lock, and reset_counter on the GUI thread.  Every read and every   *)
(* write of a counter field is one step; x += 1 is a read and a write.         *)

\* The track ids that appear, the frames followed, and the coordinate of the
\* counting line.
MaxIdC == 2
MaxFramesC == 2
LineAt == 1

\* The points a trace ends with, on either side of the line.
PointBefore == <<0, 0>>
PointAfter == <<2, 2>>

\* track['trace'] cut to what check_line_crossing reads: one point, or the last
\* two.
Traces ==
    {<<PointBefore>>, <<PointBefore, PointBefore>>, <<PointBefore, PointAfter>>,
     <<PointAfter, PointBefore>>}

\* The lists tracker.update returns: ids ascending, each with its trace.
TrackLists ==
    {<<>>} \cup
    UNION {[1..n -> [id : 1..MaxIdC, trace : Traces]] : n \in 1..MaxIdC}

IdsAscending(tracks) ==
    \A i, j \in 1..Len(tracks) : i < j => tracks[i].id < tracks[j].id

\* process_frame's counting_line for a line direction.
CountingLine(line_direction) ==
    IF line_direction = "horizontal"
    THEN <<<<0, LineAt>>, <<2 * LineAt, LineAt>>>>
    ELSE <<<<LineAt, 0>>, <<LineAt, 2 * LineAt>>>>

\* The counting fields of DetectionWorker.__init__, with the line set.
Counters(line_direction) ==
    [counting_line |-> CountingLine(line_direction),
     line_direction |-> line_direction,
     crossed_ids |-> {}, counter |-> 0, total_ids |-> {},
     left_to_right_counter |-> 0, right_to_left_counter |-> 0,
     top_to_bottom_counter |-> 0, bottom_to_top_counter |-> 0,
     crossed_direction |-> {}]

\* check_line_crossing after its crossed_ids test: the direction in which the
\* last two points of the trace pass the line, "none" when they do not.
Crossing(w, trace) ==
    IF Len(trace) < 2 THEN "none"
    ELSE LET p1 == trace[Len(trace) - 1]
             p2 == trace[Len(trace)]
         IN  IF w.line_direction = "horizontal"
             THEN LET line_y == w.counting_line[1][2]
                  IN  IF p1[2] < line_y /\ p2[2] >= line_y THEN "top_to_bottom"
                      ELSE IF p1[2] >= line_y /\ p2[2] < line_y THEN "bottom_to_top"
                      ELSE "none"
             ELSE LET line_x == w.counting_line[1][1]
                  IN  IF p1[1] < line_x /\ p2[1] >= line_x THEN "left_to_right"
                      ELSE IF p1[1] >= line_x /\ p2[1] < line_x THEN "right_to_left"
                      ELSE "none"

\* The counter of a direction, and the worker with it set.
DirectionCounter(w, dir) ==
    CASE dir = "left_to_right" -> w.left_to_right_counter
      [] dir = "right_to_left" -> w.right_to_left_counter
      [] dir = "top_to_bottom" -> w.top_to_bottom_counter
      [] dir = "bottom_to_top" -> w.bottom_to_top_counter

WithDirectionCounter(w, dir, v) ==
    CASE dir = "left_to_right" -> [w EXCEPT !.left_to_right_counter = v]
      [] dir = "right_to_left" -> [w EXCEPT !.right_to_left_counter = v]
      [] dir = "top_to_bottom" -> [w EXCEPT !.top_to_bottom_counter = v]
      [] dir = "bottom_to_top" -> [w EXCEPT !.bottom_to_top_counter = v]

\* The consumer between frames, and the GUI outside reset_counter (gui is the
\* number of the assignment reset_counter makes next, 0 outside it).  counted
\* is how often each id has raised self.counter since the last reset_counter
\* returned; frames counts the frames taken.
CounterThreads ==
    [gui |-> 0,
     consumer |-> [at |-> "between", tracks |-> <<>>, i |-> 0, dir |-> "none",
                   read |-> 0],
     counted |-> [id \in 1..MaxIdC |-> 0],
     frames |-> 0]

InitC ==
    /\ trackers = <<>>
    /\ next_id = 1
    /\ max_lost = MaxLostT
    /\ out = <<>>
    /\ in_dets = <<>>
    /\ in_shape = None
    /\ log = <<>>
    /\ spawned = <<>>
    /\ issued = <<>>
    /\ seen = {}
    /\ removed = {}
    /\ raised = FALSE
    /\ calls = <<>>
    /\ matches = {}
    /\ count_age = FALSE
    /\ max_history = 0
    /\ args = None
    /\ result = None
    /\ worker \in {Counters(d) : d \in {"horizontal", "vertical"}}
    /\ pc = CounterThreads
    /\ receiver = None
    /\ lived = None
    /\ count = NoCount

Unchanged_counting ==
    UNCHANGED <<trackers, next_id, max_lost, out, in_dets, in_shape, log,
                spawned, issued, seen, removed, raised, calls, matches,
                count_age, max_history, args, result, receiver, lived,
                count>>

\* The consumer goes on to the next track of the frame, or is through with it.
NextTrack ==
    [pc EXCEPT !.consumer = IF @.i < Len(@.tracks)
                            THEN [@ EXCEPT !.at = "check", !.i = @ + 1,
                                           !.dir = "none", !.read = 0]
                            ELSE [at |-> "between", tracks |-> <<>>, i |-> 0,
                                  dir |-> "none", read |-> 0]]

\* tracking_consumer: tracks = self.tracker.update(...) for the next frame.
consumer_tracks ==
    /\ pc.consumer.at = "between"
    /\ pc.frames < MaxFramesC
    /\ \E tracks \in {t \in TrackLists : IdsAscending(t)} :
          pc' = [pc EXCEPT !.frames = @ + 1,
                           !.consumer = IF tracks = <<>> THEN @
                                        ELSE [at |-> "check", tracks |-> tracks,
                                              i |-> 1, dir |-> "none", read |-> 0]]
    /\ UNCHANGED worker
    /\ Unchanged_counting

\* total_ids.add and check_line_crossing up to its branch: the counting_line
\* and crossed_ids tests, the trace, the side of the line.
check_line_crossing_test ==
    /\ pc.consumer.at = "check"
    /\ \E track \in {pc.consumer.tracks[pc.consumer.i]} :
       \E dir \in {IF track.id \in worker.crossed_ids THEN "none"
                   ELSE Crossing(worker, track.trace)} :
          /\ worker' = [worker EXCEPT !.total_ids = @ \cup {track.id}]
          /\ pc' = IF dir = "none" THEN NextTrack
                   ELSE [pc EXCEPT !.consumer.at = "add", !.consumer.dir = dir]
    /\ Unchanged_counting

\* check_line_crossing: self.crossed_ids.add(id); self.crossed_direction[id] = ...
check_line_crossing_add ==
    /\ pc.consumer.at = "add"
    /\ \E id \in {pc.consumer.tracks[pc.consumer.i].id} :
          worker' = [worker EXCEPT
                        !.crossed_ids = @ \cup {id},
                        !.crossed_direction =
                            {e \in @ : e[1] # id} \cup {<<id, pc.consumer.dir>>}]
    /\ pc' = [pc EXCEPT !.consumer.at = "dir_read"]
    /\ Unchanged_counting

\* check_line_crossing: self.<direction>_counter += 1, the read.
check_line_crossing_read ==
    /\ pc.consumer.at = "dir_read"
    /\ pc' = [pc EXCEPT !.consumer.at = "dir_write",
                        !.consumer.read = DirectionCounter(worker, pc.consumer.dir)]
    /\ UNCHANGED worker
    /\ Unchanged_counting

\* check_line_crossing: self.<direction>_counter += 1, the write; return True.
check_line_crossing_write ==
    /\ pc.consumer.at = "dir_write"
    /\ worker' = WithDirectionCounter(worker, pc.consumer.dir, pc.consumer.read + 1)
    /\ pc' = [pc EXCEPT !.consumer.at = "counter_read"]
    /\ Unchanged_counting

\* tracking_consumer: self.counter += 1, the read.
consumer_counter_read ==
    /\ pc.consumer.at = "counter_read"
    /\ pc' = [pc EXCEPT !.consumer.at = "counter_write",
                        !.consumer.read = worker.counter]
    /\ UNCHANGED worker
    /\ Unchanged_counting

\* tracking_consumer: self.counter += 1, the write.
consumer_counter_write ==
    /\ pc.consumer.at = "counter_write"
    /\ worker' = [worker EXCEPT !.counter = pc.consumer.read + 1]
    /\ \E id \in {pc.consumer.tracks[pc.consumer.i].id} :
          pc' = [NextTrack EXCEPT !.counted[id] = @ + 1]
    /\ Unchanged_counting

\* The assignments of reset_counter, in program order.
ResetOrder ==
    <<"counter", "left_to_right_counter", "right_to_left_counter",
      "top_to_bottom_counter", "bottom_to_top_counter", "crossed_ids",
      "crossed_direction", "total_ids">>

\* The worker after the n-th assignment of reset_counter.
ResetField(w, n) ==
    CASE n = 1 -> [w EXCEPT !.counter = 0]
      [] n = 2 -> [w EXCEPT !.left_to_right_counter = 0]
      [] n = 3 -> [w EXCEPT !.right_to_left_counter = 0]
      [] n = 4 -> [w EXCEPT !.top_to_bottom_counter = 0]
      [] n = 5 -> [w EXCEPT !.bottom_to_top_counter = 0]
      [] n = 6 -> [w EXCEPT !.crossed_ids = {}]
      [] n = 7 -> [w EXCEPT !.crossed_direction = {}]
      [] n = 8 -> [w EXCEPT !.total_ids = {}]

\* GUI thread: reset_counter is called and takes the mutex, which the
\* consumer never takes.
reset_counter_call ==
    /\ pc.gui = 0
    /\ pc' = [pc EXCEPT !.gui = 1]
    /\ UNCHANGED worker
    /\ Unchanged_counting

\* reset_counter: its next assignment; after the last it returns.
reset_counter_assign ==
    /\ pc.gui # 0
    /\ worker' = ResetField(worker, pc.gui)
    /\ pc' = IF pc.gui < Len(ResetOrder)
             THEN [pc EXCEPT !.gui = @ + 1]
             ELSE [pc EXCEPT !.gui = 0,
                             !.counted = [id \in 1..MaxIdC |-> 0]]
    /\ Unchanged_counting

NextC ==
    \/ consumer_tracks
    \/ check_line_crossing_test
    \/ check_line_crossing_add
    \/ check_line_crossing_read
    \/ check_line_crossing_write
    \/ consumer_counter_read
    \/ consumer_counter_write
    \/ reset_counter_call
    \/ reset_counter_assign

SpecC == InitC /\ [][NextC]_vars

-----------------------------------------------------------------------------
(* Properties *)

IdSeq(trks) == Tuple([i \in 1..Len(trks) |-> trks[i].id])

StrictlyIncreasing(seq) ==
    \A i, j \in 1..Len(seq) : i < j => seq[i] < seq[j]

Range(seq) == {seq[i] : i \in 1..Len(seq)}

IsSubsequence(sub, seq) ==
    \E keep \in SUBSET (1..Len(seq)) :
        sub = SelectSeq(seq, LAMBDA x : \E i \in keep : seq[i] = x)

\* The Track of trks with the given id (ids are unique, C1).
TrackOf(trks, id) == trks[CHOOSE i \in 1..Len(trks) : trks[i].id = id]

LiveIds(trks) == {trks[i].id : i \in 1..Len(trks)}

\* C1: over any sequence of update() calls the ids issued are pairwise
\* distinct and strictly increasing in issuance order; the Tracks that stay
\* live keep their ids, in their order, and every Track added to the live set
\* carries an id issued in that call, larger than every id issued before, so
\* no id of a removed Track is issued again.
C1_IdsDistinctIncreasingStable ==
    [][LET old == IdSeq(trackers)
           new == IdSeq(trackers')
           n_new == Len(issued') - Len(issued)
           n_old == Len(new) - n_new
       IN  /\ StrictlyIncreasing(issued')
           /\ SubSeq(issued', 1, Len(issued)) = issued
           /\ n_new >= 0 /\ n_old >= 0
           /\ IsSubsequence(SubSeq(new, 1, n_old), old)
           /\ SubSeq(new, n_old + 1, Len(new))
                = SubSeq(issued', Len(issued) + 1, Len(issued'))
           /\ \A k \in Len(issued) + 1..Len(issued') :
                \A m \in 1..Len(issued) : issued'[k] > issued[m]
           /\ \A i \in 1..Len(trackers) :
                (log'[i].stage # "miss" \/ trackers[i].lost + 1 < max_lost)
                    => trackers[i].id \in Range(new)
           /\ StrictlyIncreasing(new)]_vars

\* A Track was removed, a later id was issued, and an older Track is still live
\* under its id after being matched.
C1_Witness ==
    /\ Len(issued) = 3
    /\ 1 \notin LiveIds(trackers)
    /\ LiveIds(trackers) = {2, 3}
    /\ Len(log) >= 1 /\ log[1].id = 2 /\ log[1].stage = "high"
    /\ spawned # <<>>

\* C2: no list returned by update() holds a Track whose lost has reached
\* max_lost, whether the call had detections or not.
C2_NoLostTrackInOutput ==
    \A i \in 1..Len(trackers) :
        trackers[i].id \in Ids(out) => trackers[i].lost < max_lost

\* The part of C2 the code keeps: after a call with detections every Track
\* returned has lost < max_lost.
C2_HoldsAfterDetections ==
    in_dets # <<>> =>
        \A i \in 1..Len(trackers) :
            trackers[i].id \in Ids(out) => trackers[i].lost < max_lost

\* A call without detections returned a Track whose lost had reached max_lost.
C2_Witness ==
    /\ in_dets = <<>>
    /\ \E i \in 1..Len(trackers) :
          trackers[i].id \in Ids(out) /\ trackers[i].lost >= max_lost

\* C3: a call with an empty detection list leaves the live set as it is, Track
\* by Track, except that every lost grows by exactly 1 (and the Kalman estimate
\* is predicted); it matches nothing, spawns nothing and leaves next_id alone.
C3_EmptyFrameCountsOneMiss ==
    [][in_dets' = <<>> =>
        /\ Len(trackers') = Len(trackers)
        /\ \A i \in 1..Len(trackers) :
              /\ trackers'[i].id = trackers[i].id
              /\ trackers'[i].lost = trackers[i].lost + 1
              /\ trackers'[i].last_detection = trackers[i].last_detection
              /\ log'[i].stage = "miss" /\ log'[i].det = 0
        /\ Len(log') = Len(trackers)
        /\ spawned' = <<>>
        /\ next_id' = next_id
        /\ issued' = issued]_vars

\* A call without detections on two live Tracks, one of them already lost.
C3_Witness ==
    /\ in_dets = <<>>
    /\ Len(trackers) = 2
    /\ trackers[1].lost = 2
    /\ trackers[2].lost = 1

\* The centre of b lies farther than 0.1 x the frame diagonal from the centre of
\* a: dist_sq > c_sq / 100, with dist_sq = DistSq4 / 4.
OutsideGate(a, b, frame_shape) ==
    25 * DistSq4(a, b)
        > CSq(FrameDims(frame_shape)[2], FrameDims(frame_shape)[1])

\* C4 as claimed: in no stage, recovery included, is a Track matched to a
\* detection whose centre is outside the gate around the Track's predicted centre.
C4_NoMatchBeyondPredictedGate ==
    \A i \in 1..Len(log) :
        log[i].stage # "miss" =>
            ~OutsideGate(log[i].pred, DetBox(in_dets[log[i].det]), in_shape)

\* C4 as the code has it: Stage A and Stage B never match a Track to a
\* detection outside the gate around its predicted centre, whatever the
\* confidence and even for a sole candidate; the recovery stage gates on the
\* distance from the Track's last matched detection instead.
C4_GateByStage ==
    [][\A i \in 1..Len(log') :
        /\ log'[i].stage \in {"high", "low"} =>
              ~OutsideGate(log'[i].pred, DetBox(in_dets'[log'[i].det]), in_shape')
        /\ log'[i].stage = "recovered" =>
              ~OutsideGate(trackers[i].last_detection,
                           DetBox(in_dets'[log'[i].det]), in_shape')]_vars

\* The only detection of a frame, of high confidence, lay outside the gate of
\* the only Track, stayed unmatched and seeded a new Track.
C4_Witness ==
    /\ Len(log) = 1 /\ Len(in_dets) = 1
    /\ HighScore(in_dets[1])
    /\ OutsideGate(log[1].pred, DetBox(in_dets[1]), in_shape)
    /\ log[1].stage = "miss"
    /\ spawned = <<1>>

\* Detection j of the step was claimed by neither Stage A nor Stage B.
UnclaimedAfterStages(lg, j) ==
    \A k \in 1..Len(lg) : lg[k].stage \in {"high", "low"} => lg[k].det # j

Area(b) == (b[3] - b[1]) * (b[4] - b[2])

\* C5 as claimed: for every 0 < k < max_lost, a Track lost for k frames that
\* Stage A and Stage B leave unmatched, with an unclaimed detection on its
\* last matched box, is recovered on that detection: lost = 0, same id, no
\* Track spawned for the detection.
C5_RecoveredForEveryK ==
    [][\A i \in 1..Len(trackers) : \A j \in 1..Len(in_dets') :
        ( /\ 0 < trackers[i].lost /\ trackers[i].lost < max_lost
          /\ log'[i].stage \notin {"high", "low"}
          /\ DetBox(in_dets'[j]) = trackers[i].last_detection
          /\ UnclaimedAfterStages(log', j) )
        => /\ log'[i].stage = "recovered"
           /\ log'[i].det = j
           /\ trackers[i].id \in LiveIds(trackers')
           /\ TrackOf(trackers', trackers[i].id).lost = 0
           /\ j \notin Range(spawned')]_vars

\* C5 as the code has it: the same for 12 <= k < max_lost (from 12 lost frames
\* on the weight 1 - 0.9^k exceeds 0.7), when the Track is the only one left
\* unmatched by Stage A and Stage B, the detection on its last matched box (of
\* positive area) is the only one left unclaimed, and the frame has a diagonal.
C5_RecoveredFromTwelve ==
    [][\A i \in 1..Len(trackers) : \A j \in 1..Len(in_dets') :
        ( /\ 12 <= trackers[i].lost /\ trackers[i].lost < max_lost
          /\ log'[i].stage \notin {"high", "low"}
          /\ \A k \in 1..Len(trackers) : k # i => log'[k].stage \in {"high", "low"}
          /\ DetBox(in_dets'[j]) = trackers[i].last_detection
          /\ Area(trackers[i].last_detection) > 0
          /\ UnclaimedAfterStages(log', j)
          /\ \A m \in 1..Len(in_dets') : m # j => ~UnclaimedAfterStages(log', m)
          /\ CSq(FrameDims(in_shape')[2], FrameDims(in_shape')[1]) > 0 )
        => /\ log'[i].stage = "recovered"
           /\ log'[i].det = j
           /\ trackers[i].id \in LiveIds(trackers')
           /\ TrackOf(trackers', trackers[i].id).lost = 0
           /\ TrackOf(trackers', trackers[i].id).last_detection = DetBox(in_dets'[j])
           /\ j \notin Range(spawned')
           /\ next_id' = next_id]_vars

\* A Track whose prediction had drifted outside the gate of the detection was
\* recovered on its last matched box.
C5_Witness ==
    \E i \in 1..Len(log) :
        /\ log[i].stage = "recovered"
        /\ OutsideGate(log[i].pred, DetBox(in_dets[log[i].det]), in_shape)
        /\ TrackOf(trackers, log[i].id).lost = 0
        /\ TrackOf(trackers, log[i].id).last_detection = DetBox(in_dets[log[i].det])
        /\ spawned = <<>>

\* The Tracks of the log that some stage matched.
MatchedRows(lg) == {i \in 1..Len(lg) : lg[i].stage # "miss"}

\* C6: a call with n >= 1 detections on a manager without live Tracks leaves
\* exactly n Tracks, the k-th seeded by the k-th detection box; a call with one
\* high-confidence detection inside the gate around the predicted centre of the
\* only live Track returns exactly that Track, same id, lost = 0, and creates
\* no Track.
C6_SpawnThenTrack ==
    [][/\ (Len(trackers) = 0 /\ in_dets' # <<>>) =>
            /\ Len(trackers') = Len(in_dets')
            /\ Len(out') = Len(in_dets')
            /\ Len(spawned') = Len(in_dets')
            /\ \A k \in 1..Len(in_dets') :
                  /\ trackers'[k].id = next_id + (k - 1)
                  /\ trackers'[k].state = DetBox(in_dets'[k])
                  /\ trackers'[k].last_detection = DetBox(in_dets'[k])
                  /\ trackers'[k].lost = 0
                  /\ out'[k].id = next_id + (k - 1)
                  /\ out'[k].bbox = DetBox(in_dets'[k])
       /\ ( /\ Len(trackers) = 1 /\ Len(in_dets') = 1
            /\ HighScore(in_dets'[1])
            /\ CSq(FrameDims(in_shape')[2], FrameDims(in_shape')[1]) > 0
            /\ ~OutsideGate(log'[1].pred, DetBox(in_dets'[1]), in_shape') ) =>
            /\ Len(out') = 1
            /\ out'[1].id = trackers[1].id
            /\ Len(trackers') = 1
            /\ trackers'[1].id = trackers[1].id
            /\ trackers'[1].lost = 0
            /\ trackers'[1].last_detection = DetBox(in_dets'[1])
            /\ spawned' = <<>>
            /\ next_id' = next_id
            /\ issued' = issued]_vars

\* The first call created Track 1 from one detection and the second call
\* matched it, in Stage A, to its only detection.
C6_Witness ==
    /\ issued = <<1>>
    /\ Len(in_dets) = 1 /\ HighScore(in_dets[1])
    /\ Len(log) = 1 /\ log[1].stage = "high"
    /\ ~OutsideGate(log[1].pred, DetBox(in_dets[1]), in_shape)
    /\ Len(out) = 1 /\ out[1].id = 1
    /\ trackers[1].lost = 0

C8_ExactlyOneOutcome ==
    [][in_dets' # <<>> =>
        /\ Len(log') = Len(trackers)
        /\ \A i \in 1..Len(trackers) :
              /\ log'[i].id = trackers[i].id
              /\ log'[i].stage \in {"high", "low", "recovered", "miss"}
              /\ log'[i].stage # "miss" =>
                    /\ log'[i].updates = 1
                    /\ log'[i].det \in 1..Len(in_dets')
                    /\ trackers[i].id \in LiveIds(trackers')
                    /\ TrackOf(trackers', trackers[i].id).lost = 0
                    /\ TrackOf(trackers', trackers[i].id).last_detection
                          = DetBox(in_dets'[log'[i].det])
              /\ log'[i].stage = "miss" =>
                    /\ log'[i].updates = 0
                    /\ log'[i].det = 0
                    /\ IF trackers[i].lost + 1 < max_lost
                       THEN /\ trackers[i].id \in LiveIds(trackers')
                            /\ TrackOf(trackers', trackers[i].id).lost
                                  = trackers[i].lost + 1
                            /\ TrackOf(trackers', trackers[i].id).last_detection
                                  = trackers[i].last_detection
                       ELSE trackers[i].id \notin LiveIds(trackers')]_vars

\* One call recovered a Track and counted a miss for another.
C8_Witness ==
    /\ in_dets # <<>>
    /\ \E i, k \in 1..Len(log) :
          /\ log[i].stage = "recovered"
          /\ log[i].id \in LiveIds(trackers)
          /\ TrackOf(trackers, log[i].id).lost = 0
          /\ log[k].stage = "miss"

\* C9: in a call with detections every detection is either paired with exactly
\* one Track that was live at the start or seeds exactly one new Track, never
\* both and never neither; (Tracks updated) + (Tracks spawned) = detections;
\* the k-th Track spawned carries the id next_id + k - 1 and the counter ends
\* at next_id + (Tracks spawned).
C9_EveryDetectionOnce ==
    [][in_dets' # <<>> =>
        LET matched == {log'[i].det : i \in MatchedRows(log')}
            n_new == Len(spawned')
            n_kept == Len(trackers') - n_new
        IN  /\ \A j \in 1..Len(in_dets') :
                  (j \in matched) # (j \in Range(spawned'))
            /\ \A i, k \in MatchedRows(log') :
                  i # k => log'[i].det # log'[k].det
            /\ StrictlyIncreasing(spawned')
            /\ Cardinality(MatchedRows(log')) + n_new = Len(in_dets')
            /\ next_id' = next_id + n_new
            /\ Len(issued') = Len(issued) + n_new
            /\ n_kept >= 0
            /\ \A k \in 1..n_new :
                  /\ trackers'[n_kept + k].id = next_id + (k - 1)
                  /\ issued'[Len(issued) + k] = next_id + (k - 1)
                  /\ trackers'[n_kept + k].state = DetBox(in_dets'[spawned'[k]])
                  /\ trackers'[n_kept + k].last_detection
                        = DetBox(in_dets'[spawned'[k]])
                  /\ trackers'[n_kept + k].lost = 0]_vars

\* Of the two detections of a call one was paired with a live Track and the
\* other, of low confidence, seeded a new one.
C9_Witness ==
    /\ Len(in_dets) = 2
    /\ Len(spawned) = 1
    /\ ~HighScore(in_dets[spawned[1]])
    /\ Cardinality(MatchedRows(log)) = 1
    /\ Len(trackers) = 2
    /\ trackers[2].last_detection = DetBox(in_dets[spawned[1]])

\* C10: the list returned last names the live Tracks one for one, in the order
\* of the live set, which is creation order: ids strictly ascending.
C10_OutputInCreationOrder ==
    /\ Len(out) = Len(trackers)
    /\ \A i \in 1..Len(out) :
          /\ out[i].id = trackers[i].id
          /\ out[i].bbox = trackers[i].state
    /\ \A i, j \in 1..Len(out) : i < j => out[i].id < out[j].id
    /\ \A i, j \in 1..Len(issued) :
          (i < j /\ issued[i] \in Ids(out) /\ issued[j] \in Ids(out)) =>
             \E a, b \in 1..Len(out) :
                a < b /\ out[a].id = issued[i] /\ out[b].id = issued[j]

\* Two Tracks are returned, created in different calls, after an older Track
\* was dropped.
C10_Witness ==
    /\ Len(out) = 2
    /\ out[1].id = 2 /\ out[2].id = 3
    /\ 1 \in seen

\* The frame dimensions are absent or zero.
Malformed(frame_shape) ==
    \/ frame_shape = None
    \/ frame_shape[1] = 0
    \/ frame_shape[2] = 0

\* What the fallback to 640 x 480 gives for the only Track and the only
\* detection of a call, of high confidence and inside the default gate: the
\* Stage A cost is at most 0.01, the pair is matched and nothing is spawned.
MatchedAsByDefault ==
    ( /\ Len(trackers) = 1 /\ Len(in_dets') = 1
      /\ HighScore(in_dets'[1])
      /\ ~OutsideGate(log'[1].pred, DetBox(in_dets'[1]), None) )
    => /\ log'[1].stage = "high"
       /\ spawned' = <<>>
       /\ next_id' = next_id

\* C11: a call whose frame dimensions are absent or zero completes and returns,
\* and gates and normalises with the default 640 x 480.
C11_MalformedFallsBack ==
    [][(in_dets' # <<>> /\ Malformed(in_shape')) =>
          /\ ~raised'
          /\ MatchedAsByDefault]_vars

\* The part of C11 the code keeps: absent dimensions (None) fall back to
\* 640 x 480 and the call returns.
C11_AbsentFallsBack ==
    [][(in_dets' # <<>> /\ in_shape' = None) =>
          /\ ~raised'
          /\ MatchedAsByDefault]_vars

\* A call with zero frame dimensions either raised, or left the only Track
\* unmatched by a detection inside the default gate and seeded a second Track.
C11_Witness ==
    /\ in_shape = <<0, 0>>
    /\ Len(in_dets) = 1 /\ Len(log) = 1
    /\ HighScore(in_dets[1])
    /\ ~OutsideGate(log[1].pred, DetBox(in_dets[1]), None)
    /\ \/ raised
       \/ log[1].stage = "miss" /\ spawned = <<1>>

\* Zero or negative width or height.
Degenerate(b) == b[3] <= b[1] \/ b[4] <= b[2]

\* C12: compute_iou is 0 when either box is degenerate, lies in [0, 1] for two
\* well-formed boxes and does not depend on the order of its arguments; the
\* Stage B cost and the recovery cost of a pair with a degenerate box are then
\* at least 0.5, and the pair is not accepted.
C12_IouOfDegenerateBoxes ==
    result # None =>
        /\ result.op = "iou" =>
              /\ (Degenerate(args.a) \/ Degenerate(args.b)) => result.ab = 0
              /\ (~Degenerate(args.a) /\ ~Degenerate(args.b)) =>
                    (0 <= result.ab /\ result.ab <= CostScale)
              /\ result.ab = result.ba
        /\ result.op \in {"second", "recovery"} =>
              ((Degenerate(args.a) \/ Degenerate(args.b)) =>
                    /\ 2 * result.cost >= CostScale
                    /\ ~result.accepted)

\* compute_iou returned 0 for a box of negative width laid over a well-formed
\* one.
C12_Witness ==
    /\ result # None /\ result.op = "iou"
    /\ args.a[3] < args.a[1] /\ args.a[4] > args.a[2]
    /\ ~Degenerate(args.b)
    /\ args.b[1] <= args.a[3] /\ args.a[1] <= args.b[3]
    /\ result.ab = 0

\* C13: the k-th Track the manager creates carries the id k, starting at 1,
\* and next_id - 1 is the number of Tracks created so far.
C13_IdsConsecutiveFromOne ==
    /\ next_id - 1 = Len(issued)
    /\ \A k \in 1..Len(issued) : issued[k] = k
    /\ \A i \in 1..Len(trackers) : trackers[i].id \in 1..Len(issued)

\* Three Tracks were created over several calls, the first of them dropped
\* since.
C13_Witness ==
    /\ issued = <<1, 2, 3>>
    /\ next_id = 4
    /\ \E r \in removed : r.id = 1
    /\ Len(trackers) >= 1

\* The positions of calls where Track i is the subject of the given call.
CallAt(cs, what, i) == {k \in 1..Len(cs) : cs[k].call = what /\ cs[k].trk = i}

\* C14: in every call of the manager, with or without detections, predict()
\* runs exactly once on every Track live at the start, before any stage reads
\* its predict_state; what Stage A and Stage B read is the box predicted in
\* this call; no read of predict_state follows an update() of the same Track;
\* and the age of every such Track grows by exactly 1 (a Track spawned in the
\* call has age 0).
C14_PredictOncePerStep ==
    [][~raised' =>
        /\ \A i \in 1..Len(trackers) :
              /\ Cardinality(CallAt(calls', "predict", i)) = 1
              /\ \A p \in CallAt(calls', "predict", i) :
                    \A r \in CallAt(calls', "read", i) : p < r
              /\ \A u \in CallAt(calls', "update", i) :
                    \A r \in CallAt(calls', "read", i) : r < u
              /\ in_dets' # <<>> =>
                    /\ log'[i].read # None
                    /\ log'[i].read = log'[i].pred
              /\ in_dets' = <<>> => CallAt(calls', "read", i) = {}
              /\ (count_age /\ trackers[i].id \in LiveIds(trackers')) =>
                    TrackOf(trackers', trackers[i].id).age = trackers[i].age + 1
        /\ \A k \in 1..Len(calls') : calls'[k].trk \in 1..Len(trackers)
        /\ count_age =>
              \A k \in 1..Len(spawned') :
                 trackers'[Len(trackers') - Len(spawned') + k].age = 0]_vars

\* A Track of age 2 was read by Stage A, left unmatched, read again by Stage B
\* and updated on a low-confidence detection, next to a Track spawned in the
\* same call.
C14_Witness ==
    /\ count_age
    /\ \E i \in 1..Len(log) :
          /\ log[i].stage = "low"
          /\ Cardinality(CallAt(calls, "read", i)) = 2
          /\ Cardinality(CallAt(calls, "update", i)) = 1
          /\ TrackOf(trackers, log[i].id).age = 2
    /\ Len(spawned) = 1
    /\ trackers[Len(trackers)].age = 0

\* C15: over the three stages of one call no detection is paired with two
\* Tracks and no Track with two detections; a detection recovery consumed
\* seeds no Track; a recovered Track is updated once, in the recovery loop,
\* and the closeout loop neither updates it again nor counts a miss for it.
C15_OneToOneAcrossStages ==
    [][(in_dets' # <<>> /\ ~raised') =>
        /\ \A m, n \in matches' :
              (m[1] = n[1] \/ m[2] = n[2]) => m = n
        /\ \A m \in matches' :
              /\ m[1] \in 1..Len(trackers)
              /\ m[2] \in 1..Len(in_dets')
              /\ m[2] \notin Range(spawned')
              /\ Cardinality(CallAt(calls', "update", m[1])) = 1
              /\ CallAt(calls', "miss", m[1]) = {}
              /\ TrackOf(trackers', trackers[m[1]].id).lost = 0
              /\ TrackOf(trackers', trackers[m[1]].id).last_detection
                    = DetBox(in_dets'[m[2]])
        /\ \A i \in 1..Len(trackers) :
              (\A m \in matches' : m[1] # i) =>
                 /\ CallAt(calls', "update", i) = {}
                 /\ Cardinality(CallAt(calls', "miss", i)) = 1]_vars

\* In one call of two detections one Track took the high-confidence detection
\* in Stage A and another Track was recovered on the other detection.
C15_Witness ==
    /\ Len(in_dets) = 2
    /\ \E m, n \in matches :
          /\ m[3] = "high" /\ n[3] = "recovered"
          /\ m[1] # n[1] /\ m[2] # n[2]
    /\ spawned = <<>>
    /\ \A i \in 1..Len(trackers) : trackers[i].lost = 0

\* The Tracks and the detections paired in the given stage.
StageRows(ms, stage) == {m[1] : m \in {n \in ms : n[3] = stage}}
StageCols(ms, stage) == {m[2] : m \in {n \in ms : n[3] = stage}}

\* C16: a detection is high-confidence when its confidence is at least
\* score_thresh (equality included) and low-confidence otherwise; Stage A
\* pairs only high-confidence detections; Stage B pairs only low-confidence
\* detections with Tracks Stage A left unmatched, and reads no Track Stage A
\* matched; recovery pairs only Tracks and detections that Stage A and Stage B
\* left; and the Track of a pair ends the call holding that pair's detection.
C16_TiersAndStageOrder ==
    [][(in_dets' # <<>> /\ ~raised') =>
        /\ \A m \in matches' :
              /\ m[3] \in {"high", "low", "recovered"}
              /\ m[3] = "high" => DetScore(in_dets'[m[2]]) >= ScoreThreshPct
              /\ m[3] = "low" =>
                    /\ DetScore(in_dets'[m[2]]) < ScoreThreshPct
                    /\ m[1] \notin StageRows(matches', "high")
              /\ m[3] = "recovered" =>
                    /\ m[1] \notin StageRows(matches', "high")
                                    \cup StageRows(matches', "low")
                    /\ m[2] \notin StageCols(matches', "high")
                                    \cup StageCols(matches', "low")
              /\ TrackOf(trackers', trackers[m[1]].id).last_detection
                    = DetBox(in_dets'[m[2]])
        /\ \A i \in StageRows(matches', "high") :
              Cardinality(CallAt(calls', "read", i)) = 1
        /\ \A i \in 1..Len(trackers) :
              Cardinality(CallAt(calls', "read", i)) <= 2]_vars

\* In one call a detection of confidence exactly score_thresh was paired in
\* Stage A and one just below it in Stage B, with another Track.
C16_Witness ==
    \E m, n \in matches :
        /\ m[3] = "high" /\ DetScore(in_dets[m[2]]) = ScoreThreshPct
        /\ n[3] = "low" /\ DetScore(in_dets[n[2]]) = ScoreThreshPct - 1
        /\ m[1] # n[1]
        /\ Cardinality(CallAt(calls, "read", m[1])) = 1
        /\ Cardinality(CallAt(calls, "read", n[1])) = 2

\* C17: a pair the solver proposes is kept only if its cost is strictly below
\* match_threshold: a cost equal to the threshold and the sentinel cost 2.0 of
\* a gated pair are rejected, also for the only candidate (a 1 x 1 matrix),
\* and a sole candidate below the threshold is kept.
C17_AcceptedStrictlyBelowThreshold ==
    (result # None /\ result.op = "matching") =>
        LET cost == args.cost_matrix
            N == Len(cost)
            M == Len(cost[1])
        IN  /\ \A p \in result.valid_matches :
                  /\ p[1] \in 1..N /\ p[2] \in 1..M
                  /\ cost[p[1]][p[2]] < match_threshold
                  /\ cost[p[1]][p[2]] # Sentinel
            /\ \A p, q \in result.valid_matches :
                  (p[1] = q[1] \/ p[2] = q[2]) => p = q
            /\ (N = 1 /\ M = 1) =>
                  (result.valid_matches = {<<1, 1>>}
                        <=> cost[1][1] < match_threshold)

\* The solver was given one pair whose cost equals match_threshold, or one
\* gated pair, and nothing was accepted.
C17_Witness ==
    /\ result # None /\ result.op = "matching"
    /\ Len(args.cost_matrix) = 1 /\ Len(args.cost_matrix[1]) = 1
    /\ args.cost_matrix[1][1] \in {match_threshold, Sentinel}
    /\ result.valid_matches = {}

\* C18: two Tracks with the same last_detection and the same lost get the same
\* recovery cost, the same gating outcome and the same recovery decision for
\* the same detection and frame, whatever their predicted boxes and motion.
C18_RecoveryIgnoresMotion ==
    (result # None /\ result.op = "recovery_two") =>
        /\ result.cost1 = result.cost2
        /\ (result.cost1 = Sentinel) = (result.cost2 = Sentinel)
        /\ (result.cost1 = Sentinel)
              = OutsideGate(args.last, args.det, args.shape)
        /\ result.valid1 = result.valid2

\* Two Tracks last matched on the detection's box, one predicted on it and one
\* predicted outside its gate, were both recovered on it.
C18_Witness ==
    /\ result # None /\ result.op = "recovery_two"
    /\ args.last = args.det
    /\ args.pred1 = args.det
    /\ OutsideGate(args.pred2, args.det, args.shape)
    /\ result.valid1 = {<<1, 1>>}
    /\ result.valid2 = {<<1, 1>>}

\* C19: the weight 1 - 0.9^lost is 0 at lost = 0, 0.1 at lost = 1 and never
\* falls as lost grows; for a fixed pair the recovery cost never rises with
\* lost, so a pair accepted at lost = k is accepted at every larger lost; and
\* at lost = 0 the cost is at least 1 and the pair is not accepted.
C19_RecoveryWeightMonotone ==
    (result # None /\ result.op = "recovery_over_lost") =>
        /\ result.weight[0] = 0
        /\ 10 * result.weight[1] = CostScale
        /\ result.cost[0] >= CostScale
        /\ result.cost[0] >= match_threshold
        /\ \A k, n \in 0..MaxLostR :
              k < n =>
                 /\ result.weight[k] <= result.weight[n]
                 /\ result.weight[n] < CostScale
                 /\ result.cost[n] <= result.cost[k]
                 /\ result.cost[k] < match_threshold
                       => result.cost[n] < match_threshold

\* A pair rejected while lost is small and accepted from some lost on.
C19_Witness ==
    /\ result # None /\ result.op = "recovery_over_lost"
    /\ result.cost[1] >= match_threshold
    /\ result.cost[MaxLostR - 1] < match_threshold
    /\ result.cost[MaxLostR] < match_threshold

\* The tracking_consumer threads alive, and those inside tracker.update.
AliveConsumers == {k \in Consumers : is_alive(k)}

InUpdate == {k \in Consumers : pc.consumer[k].at = "in_update"}

ManagerState ==
    <<trackers, next_id, out, in_dets, in_shape, log, spawned, issued, seen,
      removed, raised, calls, matches>>

\* C20: under every interleaving of the GUI thread (start_detection, stop and
\* its stop_tracking_thread), DetectionWorker.run (with its
\* start_tracking_thread) and the tracking_consumer threads, at most one
\* tracking_consumer thread is alive at a time; a call of tracker.update
\* begins only while no other call is in progress; and the manager changes
\* only when the one consumer that is inside update returns from it.
C20_UpdateCallsNeverOverlap ==
    [][/\ Cardinality(AliveConsumers') <= 1
       /\ Cardinality(InUpdate') <= 1
       /\ \A k \in Consumers :
             (pc.consumer[k].at # "in_update" /\ pc'.consumer[k].at = "in_update")
                => InUpdate = {}
       /\ ManagerState' # ManagerState =>
             \E k \in Consumers :
                /\ InUpdate = {k}
                /\ pc'.consumer[k].at = "draw"]_vars

\* The second consumer thread is inside update, on a manager that already
\* holds a Track, after the first thread has finished; a stop has cleared
\* tracking_running without ending the thread, and run has since taken up a
\* new task and found the thread alive.
C20_Witness ==
    /\ pc # None
    /\ pc.consumer[1].at = "dead"
    /\ pc.consumer[2].at = "in_update"
    /\ Len(trackers) > 0
    /\ ~worker.tracking_running
    /\ pc.run = "frame"
    /\ pc.gui = "idle"

\* C21: after every update() call the last_detection of each live Track is
\* the raw box of the detection it was paired with in that call (Stage A,
\* Stage B or recovery); if it was paired with none, it is what it was before
\* the call, so predict() and a miss leave it alone; and a Track created in
\* the call holds the box of the detection that seeded it.
C21_LastDetectionIsLastMatch ==
    [][\A j \in 1..Len(trackers') :
          LET t == trackers'[j]
              before == {i \in 1..Len(trackers) : trackers[i].id = t.id}
          IN  IF before = {}
              THEN \E k \in 1..Len(spawned') :
                      /\ t.id = issued'[Len(issued) + k]
                      /\ t.last_detection = DetBox(in_dets'[spawned'[k]])
              ELSE \A i \in before :
                      IF log'[i].stage \in {"high", "low", "recovered"}
                      THEN t.last_detection = DetBox(in_dets'[log'[i].det])
                      ELSE t.last_detection = trackers[i].last_detection]_vars

\* A Track was just recovered: its last_detection is the recovering detection
\* while its filtered estimate is not that box.
C21_Witness ==
    /\ in_dets # <<>>
    /\ \E i \in 1..Len(log) :
          /\ log[i].stage = "recovered"
          /\ log[i].id \in LiveIds(trackers)
          /\ TrackOf(trackers, log[i].id).last_detection = DetBox(in_dets[log[i].det])
          /\ TrackOf(trackers, log[i].id).state # DetBox(in_dets[log[i].det])

\* C22: after every update() call the history of each live Track holds between
\* 1 and max_history entries; a Track created in the call holds one entry, the
\* centre of its seeding box; a Track paired with a detection holds what it
\* held before, in the same order, with exactly one entry appended (the centre
\* of the corrected estimate) and, if it was full, without its oldest entry;
\* and the trace returned for a Track is its history.
C22_HistoryBoundedInOrder ==
    [][/\ Len(out') = Len(trackers')
       /\ \A j \in 1..Len(trackers') :
          LET t == trackers'[j]
              h == t.history
              before == {i \in 1..Len(trackers) : trackers[i].id = t.id}
          IN  /\ Len(h) >= 1
              /\ Len(h) <= max_history
              /\ out'[j].id = t.id
              /\ out'[j].trace = h
              /\ before = {} => h = <<Center2(t.last_detection)>>
              /\ \A i \in before :
                    log'[i].stage \in {"high", "low", "recovered"} =>
                       LET old == trackers[i].history
                           kept == IF Len(old) < max_history THEN old ELSE Tail(old)
                       IN  /\ Len(h) = Len(kept) + 1
                           /\ SubSeq(h, 1, Len(kept)) = kept
                           /\ h[Len(h)] = StateCenter(t.state)]_vars

\* A full history lost its oldest entry: the Track was paired with a detection
\* in this call and the centre of its seeding box is no longer in its history.
C22_Witness ==
    /\ max_history = MaxHistory
    /\ \E i \in 1..Len(log) :
          /\ log[i].stage \in {"high", "low"}
          /\ log[i].id \in LiveIds(trackers)
          /\ Len(TrackOf(trackers, log[i].id).history) = MaxHistory
          /\ \A k \in 1..MaxHistory :
                TrackOf(trackers, log[i].id).history[k] = Estimate

\* What predict() and trk.lost += 1 may not change of a Track.
Confirmed(trk) ==
    [id |-> trk.id, last_detection |-> trk.last_detection,
     history |-> trk.history]

\* C23: an update() call without detections keeps the live list as it is, in
\* length and order, and changes of each Track only age (+1), lost (+1) and
\* the predicted state and estimate; id, last_detection and history stay.  In
\* a call with detections a Track that is paired with none (predicted, then
\* counted as missed) and stays live keeps id, last_detection and history too.
C23_PredictAndMissKeepConfirmed ==
    [][/\ in_dets' = <<>> =>
             /\ Len(trackers') = Len(trackers)
             /\ next_id' = next_id
             /\ \A i \in 1..Len(trackers) :
                   /\ Confirmed(trackers'[i]) = Confirmed(trackers[i])
                   /\ trackers'[i].lost = trackers[i].lost + 1
                   /\ trackers'[i].age = trackers[i].age + 1
                   /\ trackers'[i].predict_state = trackers'[i].state
       /\ in_dets' # <<>> =>
             \A i \in 1..Len(trackers) :
                (log'[i].stage = "miss" /\ trackers[i].id \in LiveIds(trackers')) =>
                   /\ Confirmed(TrackOf(trackers', trackers[i].id))
                         = Confirmed(trackers[i])
                   /\ TrackOf(trackers', trackers[i].id).age = trackers[i].age + 1]_vars

\* A call without detections has just moved the estimate of a Track with two
\* entries in its history away from its last_detection.
C23_Witness ==
    /\ count_age
    /\ max_history = MaxHistory
    /\ in_dets = <<>>
    /\ \E i \in 1..Len(trackers) :
          /\ Len(log) = Len(trackers)
          /\ log[i].stage = "miss"
          /\ trackers[i].lost >= 1
          /\ trackers[i].age >= 2
          /\ Len(trackers[i].history) = 2
          /\ trackers[i].state # trackers[i].last_detection
          /\ trackers[i].state # Estimate

\* The ids the call gave out, in order.
IssuedNow == SubSeq(issued', Len(issued) + 1, Len(issued'))

\* C24: with max_lost >= 1, the Track seeded by a detection no stage claimed
\* is in the live list and in the list returned by the same call, with
\* lost = 0, age = 0, no predicted state, one history entry (the centre of the
\* detection box), last_detection and returned bbox equal to the detection box;
\* the call predicts, reads and updates only the Tracks live at its start.
C24_SpawnedTrackIsFresh ==
    [][(in_dets' # <<>> /\ max_lost >= 1) =>
          /\ Len(IssuedNow) = Len(spawned')
          /\ Len(log') = Len(trackers)
          /\ \A c \in 1..Len(calls') : calls'[c].trk \in 1..Len(trackers)
          /\ \A m \in matches' : m[1] \in 1..Len(trackers)
          /\ \A k \in 1..Len(spawned') :
                LET b == DetBox(in_dets'[spawned'[k]])
                    at == {j \in 1..Len(trackers') : trackers'[j].id = IssuedNow[k]}
                IN  /\ Cardinality(at) = 1
                    /\ IssuedNow[k] \notin LiveIds(trackers)
                    /\ \A m \in matches' : m[2] # spawned'[k]
                    /\ \A j \in at :
                          /\ trackers'[j].lost = 0
                          /\ trackers'[j].age = 0
                          /\ trackers'[j].predict_state = None
                          /\ trackers'[j].history = <<Center2(b)>>
                          /\ trackers'[j].last_detection = b
                          /\ out'[j].id = IssuedNow[k]
                          /\ out'[j].bbox = b
                          /\ out'[j].trace = <<Center2(b)>>]_vars

\* A call paired one detection with an older Track, of which it made the
\* estimate a blend, and seeded a new Track with the other detection.
C24_Witness ==
    /\ count_age
    /\ max_history = MaxHistory
    /\ Len(spawned) = 1
    /\ Len(in_dets) = 2
    /\ Len(trackers) = 2
    /\ trackers[1].age >= 1
    /\ trackers[1].state = Estimate
    /\ trackers[2].age = 0
    /\ trackers[2].lost = 0
    /\ trackers[2].history = <<Center2(DetBox(in_dets[spawned[1]]))>>
    /\ out[2].bbox = DetBox(in_dets[spawned[1]])

\* The Stage B cost of the pair (a Track predicted at pred, the detection det)
\* in a frame of the given shape.
StageBCost(pred, det, shape) ==
    SecondCost(TrackAt(pred, 0), DetBox(det), FrameDims(shape)[2], FrameDims(shape)[1])

\* The pairs (Track, low-confidence detection) that Stages A and B of the last
\* call both left unmatched although their Stage B cost is below
\* match_threshold.
LeftByStageB(lg, dets, shape, mt) ==
    {p \in (1..Len(lg)) \X (1..Len(dets)) :
        /\ lg[p[1]].stage \notin {"high", "low"}
        /\ ~HighScore(dets[p[2]])
        /\ \A m \in mt : ~(m[2] = p[2] /\ m[3] = "low")
        /\ Accepted(StageBCost(lg[p[1]].pred, dets[p[2]], shape))}

\* C25: after Stage B of any call there is no Track left unmatched by Stages A
\* and B and low-confidence detection left unmatched by Stage B whose Stage B
\* cost is below match_threshold.
C25_NoAcceptablePairLeftByStageB ==
    [][in_dets' # <<>> => LeftByStageB(log', in_dets', in_shape', matches') = {}]_vars

\* Two Tracks and two low-confidence detections: the solver paired each Track
\* with the detection that costs it more than match_threshold, both pairs were
\* rejected, both Tracks counted a miss and both detections seeded new Tracks,
\* although one Track and one detection are the same box.
C25_Witness ==
    /\ Len(in_dets) = 2
    /\ Len(log) = 2
    /\ log[1].stage = "miss"
    /\ log[2].stage = "miss"
    /\ Len(spawned) = 2
    /\ \E p \in LeftByStageB(log, in_dets, in_shape, matches) :
          log[p[1]].pred = DetBox(in_dets[p[2]])

\* The gating graph of a call of _first_matching: the pairs (Track, detection)
\* whose centres are at most max_distance apart.
GateEdges(preds, dets, shape) ==
    {p \in (1..Len(preds)) \X (1..Len(dets)) :
        ~OutsideGate(preds[p[1]], dets[p[2]], shape)}

IsMatching(pairs) ==
    \A p, q \in pairs : p # q => (p[1] # q[1] /\ p[2] # q[2])

\* The size of a largest matching within the edges.
MaxMatchingSize(edges) ==
    CHOOSE n \in 0..Cardinality(edges) :
        /\ \E m \in SUBSET edges : IsMatching(m) /\ Cardinality(m) = n
        /\ \A m \in SUBSET edges : IsMatching(m) => Cardinality(m) <= n

\* C26: in _first_matching every pair inside the gate costs at most 0.01,
\* below match_threshold, and every pair outside costs the sentinel 2.0; the
\* accepted pairs are pairs of the gating graph, no Track and no detection in
\* two of them, as many as the largest matching of the gating graph has; so
\* no Track and detection that are both left unmatched are inside the gate.
C26_StageAMaximumInGate ==
    (result # None /\ result.op = "first") =>
        LET edges == GateEdges(args.preds, args.dets, args.shape)
            valid == result.valid_matches
        IN  /\ \A i \in 1..Len(args.preds), j \in 1..Len(args.dets) :
                  IF <<i, j>> \in edges
                  THEN /\ 100 * result.cost_matrix[i][j] <= CostScale
                       /\ result.cost_matrix[i][j] < match_threshold
                  ELSE result.cost_matrix[i][j] = 2 * CostScale
            /\ valid \subseteq edges
            /\ IsMatching(valid)
            /\ Cardinality(valid) = MaxMatchingSize(edges)
            /\ \A p \in edges :
                  \/ \E q \in valid : q[1] = p[1]
                  \/ \E q \in valid : q[2] = p[2]

\* Three Tracks and three detections of which the nearest-first pairing would
\* leave a Track and a detection over: all three are matched, one of them with
\* a detection that is not on its own box although one on its box is there.
C26_Witness ==
    /\ result # None /\ result.op = "first"
    /\ Len(args.preds) = 3 /\ Len(args.dets) = 3
    /\ Cardinality(result.valid_matches) = 3
    /\ Cardinality(GateEdges(args.preds, args.dets, args.shape)) < 9
    /\ \E p \in result.valid_matches :
          /\ args.preds[p[1]] # args.dets[p[2]]
          /\ \E j \in 1..3 : args.dets[j] = args.preds[p[1]]

\* C27: 0.9^lost is at least 0.3 for lost <= 11 and below 0.3 at lost = 12, so
\* with match_threshold 0.3 the recovery stage accepts no pair for a Track
\* whose lost, when the stage runs, is below 12: every Track a call recovers
\* entered the call with lost >= 12.
C27_NoRecoveryBelowTwelve ==
    [][/\ \A k \in 0..11 : 10 * DecayPow(k) >= 3 * PowScale
       /\ 10 * DecayPow(12) < 3 * PowScale
       /\ MatchThresholdPct = 30
       /\ \A i \in 1..Len(trackers) :
             (in_dets' # <<>> /\ log'[i].stage = "recovered") => trackers[i].lost >= 12
       /\ \A m \in matches' : m[3] = "recovered" => trackers[m[1]].lost >= 12]_vars

\* A Track that entered the call with lost = 11 was left unmatched by the
\* recovery stage although a detection on exactly its last matched box was
\* there: the Track counted its twelfth miss and the detection seeded a Track.
C27_Witness ==
    /\ in_dets # <<>>
    /\ \E i \in 1..Len(log) :
          /\ log[i].stage = "miss"
          /\ log[i].id \in LiveIds(trackers)
          /\ TrackOf(trackers, log[i].id).lost = 12
          /\ \E k \in 1..Len(spawned) :
                DetBox(in_dets[spawned[k]]) = TrackOf(trackers, log[i].id).last_detection

\* C28: a tracking_consumer thread is ended by the None of the queue only if
\* stop() has been called since the thread was started (or was under way when
\* it was started): no None that an earlier, finished stop_tracking_thread
\* left in detection_queue ends a thread started after it.
C28_NoStaleStopSignal ==
    pc # None =>
        \A k \in Consumers :
            pc.consumer[k].ended = "sentinel" => pc.consumer[k].stopped

\* The second thread took the None of the stop that ended the first one and
\* ended at once, with no stop called since it was started: run goes on putting
\* frames on the queue, tracking_running is True and no thread is left to take
\* them.
C28_Witness ==
    /\ pc # None
    /\ pc.consumer[1].ended = "flag"
    /\ pc.consumer[2].ended = "sentinel"
    /\ ~pc.consumer[2].stopped
    /\ worker.tracking_running
    /\ pc.run = "frames"
    /\ pc.gui = "idle"
    /\ Len(worker.detection_queue) = worker.maxsize
    /\ worker.detection_queue[1].kind = "data"

\* The frames of the queue_data items of a queue, head first.
FramesOf(q) ==
    LET data == SelectSeq(q, LAMBDA item : item.kind = "data")
    IN  [i \in 1..Len(data) |-> data[i].frame]

\* The frames taken off the queue and not yet given to tracker.update.
FramesInHand ==
    {pc.consumer[k].frame : k \in {j \in Consumers : pc.consumer[j].at = "update"}}

\* Frames are numbered in the order of the process_frame calls.  The frames
\* given to tracker.update so far, then the one a consumer has in hand, then
\* those in the queue are in that order with no number twice, and the queue
\* holds at most maxsize items.
FramesInOrder(w, inHand) ==
    /\ Len(w.detection_queue) <= w.maxsize
    /\ Cardinality(inHand) <= 1
    /\ StrictlyIncreasing(w.handed \o FramesOf(w.detection_queue))
    /\ \A f \in inHand :
          /\ \A i \in 1..Len(w.handed) : w.handed[i] < f
          /\ \A i \in 1..Len(FramesOf(w.detection_queue)) :
                 f < FramesOf(w.detection_queue)[i]
    /\ \A i \in 1..Len(w.handed) : w.handed[i] \in 1..w.produced

\* C29: the frames reach tracker.update in the order in which process_frame
\* put them on detection_queue and each at most once; the queue never holds
\* more than maxsize items; a process_frame step that finds the queue full
\* leaves it as it is and returns, and one that finds room appends its frame at
\* the tail; tracker.update is given the frame its consumer took off the queue.
C29_FramesInOrderAtMostOnce ==
    [][/\ FramesInOrder(worker', FramesInHand')
       /\ (pc.run = "frame" /\ pc'.run # "frame") =>
              /\ pc'.run = "frames"
              /\ worker'.produced = worker.produced + 1
              /\ IF Len(worker.detection_queue) = worker.maxsize
                 THEN worker'.detection_queue = worker.detection_queue
                 ELSE /\ Len(worker'.detection_queue) =
                            Len(worker.detection_queue) + 1
                      /\ SubSeq(worker'.detection_queue, 1,
                                Len(worker.detection_queue)) = worker.detection_queue
                      /\ worker'.detection_queue[Len(worker'.detection_queue)].frame
                            = worker'.produced
       /\ worker'.handed # worker.handed =>
              \E k \in Consumers :
                  /\ pc.consumer[k].at = "update"
                  /\ pc'.consumer[k].at = "in_update"
                  /\ worker'.handed = Append(worker.handed, pc.consumer[k].frame)
      ]_vars

\* Frame 1 was given to tracker.update, frames 2 and 3 fill the queue, and the
\* fourth process_frame call has returned with its frame skipped.
C29_Witness ==
    /\ pc # None
    /\ worker.count_frames
    /\ worker.handed = <<1>>
    /\ Len(worker.detection_queue) = worker.maxsize
    /\ FramesOf(worker.detection_queue) = <<2, 3>>
    /\ worker.produced = 4
    /\ pc.run = "frames"

\* The frames received that are neither in frame_queue nor with the consumer.
LostFrames ==
    {f \in 1..receiver.received :
        f \notin Range(receiver.frame_queue) \cup Range(receiver.taken)}

\* C30: frame_queue never holds more than maxsize frames.  When the first
\* put_nowait of a request found the queue full and the request is through with
\* the queue, it has taken exactly one frame off the queue, the oldest there
\* was, its own frame was enqueued (it is in the queue or with the consumer) and
\* dropped_frame_count is one more than the request found it; between
\* requests every frame that is lost has been counted.
C30_FullQueueDropsOldestOnly ==
    receiver # None =>
        /\ Len(receiver.frame_queue) <= receiver.maxsize
        /\ pc.upload.at = "reput" =>
               \A f \in Range(receiver.frame_queue) : pc.upload.got[1] < f
        /\ (pc.upload.full /\ pc.upload.at \in {"count", "idle"}) =>
               /\ Len(pc.upload.got) = 1
               /\ pc.upload.frame \notin LostFrames
               /\ receiver.dropped_frame_count = pc.upload.dropped + 1
        /\ pc.upload.at = "idle" =>
               Cardinality(LostFrames) = receiver.dropped_frame_count

\* The queue was full at the put_nowait of request 3; the consumer took frames
\* 1 and 2 before the get_nowait, which raised queue.Empty: frame 3 is in no
\* queue and with no consumer, and nothing was counted.
C30_Witness ==
    /\ receiver # None
    /\ pc.upload.full
    /\ pc.upload.at = "idle"
    /\ pc.upload.frame = 3
    /\ pc.upload.got = <<>>
    /\ receiver.taken = <<1, 2>>
    /\ receiver.frame_queue = <<>>
    /\ LostFrames = {3}
    /\ receiver.dropped_frame_count = 0
    /\ receiver.frame_count = 3

\* C31: whenever the consumer is between frames and no reset_counter call is
\* under way, counter equals the sum of the four direction counters and the
\* number of ids in crossed_ids, and no id has raised the counter more than
\* once since the last reset_counter returned.
C31_CountsMatchCrossedIds ==
    (worker # None /\ pc # None /\ pc.consumer.at = "between" /\ pc.gui = 0) =>
        /\ worker.counter = worker.left_to_right_counter + worker.right_to_left_counter
                             + worker.top_to_bottom_counter + worker.bottom_to_top_counter
        /\ worker.counter = Cardinality(worker.crossed_ids)
        /\ \A id \in 1..MaxIdC : pc.counted[id] <= 1

\* Between frames, with no reset under way: id 1 has raised the counter twice
\* since the last reset_counter returned, the counter is 2 and crossed_ids
\* holds one id.
C31_Witness ==
    /\ worker # None /\ pc # None
    /\ pc.consumer.at = "between"
    /\ pc.gui = 0
    /\ pc.counted[1] = 2
    /\ worker.counter = 2
    /\ worker.crossed_ids = {1}

\* C32: after every update() call every live Track has 0 <= lost <= age, and
\* its age is the number of update() calls completed since the call that
\* made it.
C32_AgeCountsStepsLostWithin ==
    count_age =>
        \A i \in 1..Len(trackers) :
            /\ 0 <= trackers[i].lost
            /\ trackers[i].lost <= trackers[i].age
            /\ trackers[i].id \in DOMAIN lived
            /\ trackers[i].age = lived[trackers[i].id]

\* Two Tracks made in different calls: the older has lived through two calls
\* and missed the last, the younger was made by the last call.
C32_Witness ==
    /\ count_age
    /\ Len(trackers) = 2
    /\ lived[trackers[1].id] = 2 /\ trackers[1].age = 2 /\ trackers[1].lost = 1
    /\ lived[trackers[2].id] = 0 /\ trackers[2].age = 0

\* C33: a reset() call leaves the manager in the state of a freshly made
\* ObjectTracker with the same max_lost: no live Track, next_id 1, max_lost as
\* it was; and in every state the k-th Track made since the manager was made or
\* reset has id k, with next_id one more than the number made, so that the
\* calls after a reset() issue the ids a fresh manager issues.
C33_ResetReturnsToInitialState ==
    [][/\ (args # None /\ args' # None /\ args'.resets # args.resets) =>
              /\ trackers' = <<>>
              /\ next_id' = 1
              /\ max_lost' = max_lost
              /\ Manager' = ObjectTracker(max_lost)
       /\ args' # None =>
              /\ next_id' = Len(issued') + 1
              /\ \A k \in 1..Len(issued') : issued'[k] = k
              /\ \A i \in 1..Len(trackers') : trackers'[i].id \in Range(issued')
      ]_vars

\* After a reset(), update() calls have made Tracks 1 and 2, both returned by
\* the last call, which made one of them.
C33_Witness ==
    /\ args # None
    /\ args.resets = 1
    /\ next_id = 3
    /\ Len(out) = 2
    /\ out[1].id = 1 /\ out[2].id = 2
    /\ Len(spawned) = 1

\* stop_tracking_thread has set tracking_running to False and has not returned.
StopUnderWay == pc.gui \in {"stop_drain", "stop_put", "stop_join"}

\* Consumer k is inside tracker.update with the manager at the caps of the
\* model, where no return is modelled.
AtModelCap(k) ==
    pc.consumer[k].at = "in_update" /\ ~ENABLED tracking_consumer_return(k)

\* C34: a consumer thread that is alive while stop_tracking_thread is under way
\* ends in time, unless a start_tracking_thread that follows sets
\* tracking_running again (or the manager stands at the caps of the model):
\* whether the None went on the queue or not, and whatever run puts on it.
C34_StoppedConsumerTerminates ==
    \A k \in Consumers :
        (StopUnderWay /\ is_alive(k))
            ~> (pc.consumer[k].at = "dead" \/ worker.tracking_running \/ AtModelCap(k))

\* The consumer left its loop on the flag after a stop whose None did not go on
\* the queue: the queue was full of a frame run had put there after the drain.
C34_Witness ==
    /\ pc # None /\ worker # None
    /\ pc.consumer[1].ended = "flag"
    /\ pc.consumer[1].stopped
    /\ pc.gui = "stop_join"
    /\ ~worker.tracking_running
    /\ Len(worker.detection_queue) = worker.maxsize
    /\ \A i \in 1..Len(worker.detection_queue) : worker.detection_queue[i].kind = "data"

\* C35: whatever the other instance has added to KalmanTracker.count, the k-th
\* Track this manager makes has id k, next_id is one more than the number it
\* has made, every id it returns is one of these, and count is the number of
\* Tracks the two instances have constructed; a construction by the other
\* instance changes neither the Tracks nor the counter nor the last output of
\* this one.
C35_IdsFromOwnCounterOnly ==
    [][(count # NoCount /\ count' # NoCount) =>
          /\ next_id' = Len(issued') + 1
          /\ \A k \in 1..Len(issued') : issued'[k] = k
          /\ \A i \in 1..Len(out') : out'[i].id \in Range(issued')
          /\ \A i \in 1..Len(trackers') : trackers'[i].id \in Range(issued')
          /\ count' = Len(issued') + args'.other
          /\ args'.other # args.other =>
                 /\ count' = count + 1
                 /\ <<trackers', next_id', out'>> = <<trackers, next_id, out>>
      ]_vars

\* The other instance constructed Tracks before and between the two that this
\* manager made in separate calls: count is 5, the ids are 1 and 2.
C35_Witness ==
    /\ count = 5
    /\ issued = <<1, 2>>
    /\ Len(out) = 2
    /\ out[1].id = 1 /\ out[2].id = 2
    /\ Len(spawned) = 1
    /\ args.other = 3
=============================================================================
